---- MODULE Spec2Model ----
(***************************************************************************)
(* A model of the form-normalization and relationship-resolution pipeline  *)
(* of app.py (ACC Form Exporter), of its batch export with the progress    *)
(* record, and of its persistent cache.                                    *)
(*                                                                         *)
(* JSON values handled by the Python code are encoded as tagged records,   *)
(* so that the code's duck typing (truthiness, "is not None", isinstance,  *)
(* hashability of dictionary keys) is computed, not assumed:               *)
(*   None  [ty |-> "none"]            str   [ty |-> "str",  s |-> "x"]     *)
(*   bool  [ty |-> "bool", b |-> B]   int   [ty |-> "int",  n |-> 1]       *)
(*   list  [ty |-> "list", l |-> <<..>>]                                   *)
(*   dict  [ty |-> "dict", d |-> << <<key, value>>, .. >>] (ordered)       *)
(* A key that a JSON object does not carry is the marker Missing.          *)
(***************************************************************************)
EXTENDS Integers, Sequences, FiniteSets, TLC

VARIABLES
    form_data,   \* the form record a handler works on
    form_info,   \* the answer of a form handler: [status, sections]
    service,     \* what the Forms Data Source answers during the request
    assets,      \* the answer of the relationship resolution of form_data
    current_progress,  \* the global progress record
    location_cache,    \* the global in-process map of location lookups
    cache_db,          \* the tables of cache.db and the size of the file
    clock,             \* the time (UTC, in hours) and the UTC offset of the host
    batch,             \* the export requests being served, one per worker thread
    polled,            \* the last answer of get_progress
    lookup             \* the reads of the cache that the latest step of the program made

vars == <<form_data, form_info, service, assets, current_progress, location_cache,
          cache_db, clock, batch, polled, lookup>>

\* the state of the batch export and of the cache
export_vars == <<current_progress, location_cache, cache_db, clock, batch,
                 polled, lookup>>

-----------------------------------------------------------------------------
(* Python values *)

Missing == [ty |-> "missing"]
None == [ty |-> "none"]
PyStr(s) == [ty |-> "str", s |-> s]
PyInt(n) == [ty |-> "int", n |-> n]
PyBool(b) == [ty |-> "bool", b |-> b]
PyList(l) == [ty |-> "list", l |-> l]
PyDict(d) == [ty |-> "dict", d |-> d]

\* bool(v): Python truthiness, as used by "if item.get('dateVal'):"
Truthy(v) ==
    CASE v.ty = "none" -> FALSE
      [] v.ty = "bool" -> v.b
      [] v.ty = "int" -> v.n # 0
      [] v.ty = "str" -> v.s # ""
      [] v.ty = "list" -> v.l # <<>>
      [] v.ty = "dict" -> v.d # <<>>

\* hash(v) raises TypeError for lists and dictionaries
Unhashable(v) == v.ty \in {"list", "dict"}

\* item.get(key): None when the key is not carried
Get(item, key) == IF item[key] = Missing THEN None ELSE item[key]

\* item.get(key, default)
GetOr(item, key, default) == IF item[key] = Missing THEN default ELSE item[key]

\* f"{v}" for the values a label can be
Format(v) ==
    CASE v.ty = "str" -> v.s
      [] v.ty = "int" -> ToString(v.n)
      [] v.ty = "none" -> "None"

\* d[k] = v on an insertion-ordered dictionary held as a sequence of pairs
DictSet(d, k, v) ==
    IF \E i \in 1..Len(d) : d[i][1] = k
    THEN [i \in 1..Len(d) |-> IF d[i][1] = k THEN <<k, v>> ELSE d[i]]
    ELSE Append(d, <<k, v>>)

-----------------------------------------------------------------------------
(* Id-to-label lookup *)

NoTemplate == << >>

\* the id_mapping a handler takes from formTemplate, else from form_template,
\* else {} (an empty mapping is falsy and falls through)
IdMappingOf(form) ==
    IF form.formTemplate # NoTemplate THEN form.formTemplate
    ELSE IF form.form_template # NoTemplate THEN form.form_template
    ELSE NoTemplate

\* get_label raises exactly when id_mapping.get cannot hash item_id
GetLabelRaises(item_id) == Unhashable(item_id)

\* get_label(item_id, fallback) == id_mapping.get(item_id, fallback); the keys of
\* a JSON object are strings, so only a string can be found
GetLabelFallsBackToId(id_mapping, item_id, fallback) ==
    IF item_id.ty = "str" /\ item_id.s \in DOMAIN id_mapping
    THEN id_mapping[item_id.s]
    ELSE item_id

get_label(id_mapping, item_id, fallback) ==
    IF item_id.ty = "str" /\ item_id.s \in DOMAIN id_mapping
    THEN id_mapping[item_id.s]
    ELSE fallback

-----------------------------------------------------------------------------
(* Value normalization of a flat or custom field *)

Raised == [raised |-> TRUE]
Value(t, v) == [raised |-> FALSE, type |-> t, value |-> v]

\* "for v in x": a list gives its elements, a dictionary its keys; a number or a
\* boolean is not iterable
IterRaises(x) == x.ty \in {"int", "bool"}
Iter(x) ==
    CASE x.ty = "list" -> x.l
      [] x.ty = "dict" -> [i \in 1..Len(x.d) |-> PyStr(x.d[i][1])]

\* [get_label(v, v) for v in x]
LabelListRaises(x) ==
    IterRaises(x) \/ \E i \in 1..Len(Iter(x)) : GetLabelRaises(Iter(x)[i])
LabelList(id_mapping, x) ==
    [i \in 1..Len(Iter(x)) |-> get_label(id_mapping, Iter(x)[i], Iter(x)[i])]

\* {get_label(k, k): get_label(v, v) for k, v in x.items()}: only a dictionary
\* has items(); a later key that resolves to an earlier label overwrites its value
RECURSIVE LabelPairs(_, _, _)
LabelPairs(id_mapping, d, n) ==
    IF n = 0 THEN << >>
    ELSE DictSet(LabelPairs(id_mapping, d, n - 1),
                 get_label(id_mapping, PyStr(d[n][1]), PyStr(d[n][1])),
                 get_label(id_mapping, d[n][2], d[n][2]))
LabelDictRaises(x) ==
    x.ty # "dict" \/ \E i \in 1..Len(x.d) : GetLabelRaises(x.d[i][2])
LabelDict(id_mapping, x) == LabelPairs(id_mapping, x.d, Len(x.d))

\* the if/elif chain that picks ftype, fval of one item
NormalizeTruthyNumbers(id_mapping, item) ==
    IF Truthy(Get(item, "dateVal")) THEN Value("date", item.dateVal)
    ELSE IF Truthy(Get(item, "numVal")) THEN Value("number", item.numVal)
    ELSE IF Truthy(Get(item, "boolVal")) THEN Value("bool", item.boolVal)
    ELSE IF Truthy(Get(item, "listVal")) THEN
        IF LabelListRaises(item.listVal) THEN Raised
        ELSE Value("list", PyList(LabelList(id_mapping, item.listVal)))
    ELSE IF Truthy(Get(item, "objVal")) THEN
        IF LabelDictRaises(item.objVal) THEN Raised
        ELSE Value("object", PyDict(LabelDict(id_mapping, item.objVal)))
    ELSE IF Truthy(Get(item, "textVal")) THEN
        IF GetLabelRaises(item.textVal) THEN Raised
        ELSE Value("text", get_label(id_mapping, item.textVal, item.textVal))
    ELSE Value("text", PyStr(""))

Normalize(id_mapping, item) ==
    IF Truthy(Get(item, "dateVal")) THEN Value("date", item.dateVal)
    ELSE IF Get(item, "numVal") # None THEN Value("number", item.numVal)
    ELSE IF Get(item, "boolVal") # None THEN Value("bool", item.boolVal)
    ELSE IF Truthy(Get(item, "listVal")) THEN
        IF LabelListRaises(item.listVal) THEN Raised
        ELSE Value("list", PyList(LabelList(id_mapping, item.listVal)))
    ELSE IF Truthy(Get(item, "objVal")) THEN
        IF LabelDictRaises(item.objVal) THEN Raised
        ELSE Value("object", PyDict(LabelDict(id_mapping, item.objVal)))
    ELSE IF Truthy(Get(item, "textVal")) THEN
        IF GetLabelRaises(item.textVal) THEN Raised
        ELSE Value("text", get_label(id_mapping, item.textVal, item.textVal))
    ELSE Value("text", PyStr(""))

-----------------------------------------------------------------------------
(* Section building: section_map is an insertion-ordered dictionary from     *)
(* title to field list, held as a sequence of [title, fields]                *)

Field(label, t, v) == [label |-> label, type |-> t, value |-> v]

HasSection(section_map, title) ==
    \E i \in 1..Len(section_map) : section_map[i].title = title

\* section_map.get(title, [])
FieldsOf(section_map, title) ==
    IF HasSection(section_map, title)
    THEN section_map[CHOOSE i \in 1..Len(section_map) : section_map[i].title = title].fields
    ELSE << >>

\* section_map[title] = fields
SetSection(section_map, title, fields) ==
    IF HasSection(section_map, title)
    THEN [i \in 1..Len(section_map) |->
            IF section_map[i].title = title
            THEN [title |-> title, fields |-> fields] ELSE section_map[i]]
    ELSE Append(section_map, [title |-> title, fields |-> fields])

\* one iteration of the pdfValues / customValues loop
ProcessItem(id_mapping, section_map, item, default_section) ==
    LET section_id == GetOr(item, "sectionId", PyStr(""))
        section_title == get_label(id_mapping, section_id,
                                   GetOr(item, "sectionLabel", PyStr(default_section)))
        item_id == GetOr(item, "itemId", PyStr(""))
        nv == Normalize(id_mapping, item)
    IN  IF GetLabelRaises(section_id) \/ Unhashable(section_title) THEN Raised
        ELSE IF nv.raised THEN Raised
        ELSE IF GetLabelRaises(item_id) THEN Raised
        ELSE [raised |-> FALSE,
              section_map |->
                SetSection(section_map, section_title,
                    Append(FieldsOf(section_map, section_title),
                           Field(get_label(id_mapping, item_id,
                                           GetOr(item, "itemLabel", PyStr("Field"))),
                                 nv.type, nv.value)))]

RECURSIVE ProcessItems(_, _, _, _, _)
ProcessItems(id_mapping, section_map, items, n, default_section) ==
    IF n = 0 THEN [raised |-> FALSE, section_map |-> section_map]
    ELSE LET before == ProcessItems(id_mapping, section_map, items, n - 1, default_section)
         IN  IF before.raised THEN Raised
             ELSE ProcessItem(id_mapping, before.section_map, items[n], default_section)

\* the field of one cell: "<label> (Row <idx>)", typed by isinstance
CellRaises(value) ==
    CASE value.ty = "list" -> LabelListRaises(value)
      [] value.ty = "dict" -> LabelDictRaises(value)
      [] OTHER -> FALSE

RowLabel(label, idx) ==
    Format(label) \o " (Row " \o ToString(idx) \o ")"

CellField(id_mapping, key, value, idx) ==
    LET label == PyStr(RowLabel(get_label(id_mapping, PyStr(key), PyStr(key)), idx))
    IN  CASE value.ty = "bool" -> Field(label, "bool", value)
          [] value.ty = "int" -> Field(label, "number", value)
          [] value.ty = "list" -> Field(label, "list", PyList(LabelList(id_mapping, value)))
          [] value.ty = "dict" -> Field(label, "object", PyDict(LabelDict(id_mapping, value)))
          [] OTHER -> Field(label, "text", get_label(id_mapping, value, value))

\* "for key, value in row.items()": the fields of the first n cells of row idx
RECURSIVE RowFields(_, _, _, _)
RowFields(id_mapping, cells, n, idx) ==
    IF n = 0 THEN << >>
    ELSE Append(RowFields(id_mapping, cells, n - 1, idx),
                CellField(id_mapping, cells[n][1], cells[n][2], idx))

RowRaises(row) ==
    row.ty # "dict" \/ \E i \in 1..Len(row.d) : CellRaises(row.d[i][2])

\* numbering that counts only the rows carrying cells
RECURSIVE RowsFieldsSkippingEmpty(_, _, _)
RowsFieldsSkippingEmpty(id_mapping, rows, n) ==
    IF n = 0 THEN << >>
    ELSE RowsFieldsSkippingEmpty(id_mapping, rows, n - 1)
            \o RowFields(id_mapping, rows[n].d, Len(rows[n].d),
                         Cardinality({i \in 1..n : rows[i].d # << >>}))

\* "for idx, row in enumerate(rows, 1)": the fields of the first n rows
RECURSIVE RowsFields(_, _, _)
RowsFields(id_mapping, rows, n) ==
    IF n = 0 THEN << >>
    ELSE RowsFields(id_mapping, rows, n - 1)
            \o RowFields(id_mapping, rows[n].d, Len(rows[n].d), n)

\* one iteration of the tabularValues loop: the section is written only "if fields"
ProcessTabularAlways(id_mapping, section_map, section, rows) ==
    LET section_title == get_label(id_mapping, PyStr(section), PyStr(section))
    IN  IF ~Truthy(rows)
        THEN [raised |-> FALSE, section_map |-> SetSection(section_map, section_title,
                                       FieldsOf(section_map, section_title))]
        ELSE IF \E i \in 1..Len(rows.l) : RowRaises(rows.l[i]) THEN Raised
        ELSE LET fields == RowsFields(id_mapping, rows.l, Len(rows.l))
             IN  [raised |-> FALSE,
                  section_map |-> SetSection(section_map, section_title,
                                     FieldsOf(section_map, section_title) \o fields)]

ProcessTabular(id_mapping, section_map, section, rows) ==
    LET section_title == get_label(id_mapping, PyStr(section), PyStr(section))
    IN  IF ~Truthy(rows) THEN [raised |-> FALSE, section_map |-> section_map]
        ELSE IF \E i \in 1..Len(rows.l) : RowRaises(rows.l[i]) THEN Raised
        ELSE LET fields == RowsFields(id_mapping, rows.l, Len(rows.l))
             IN  [raised |-> FALSE,
                  section_map |->
                    IF fields # << >>
                    THEN SetSection(section_map, section_title,
                                    FieldsOf(section_map, section_title) \o fields)
                    ELSE section_map]

RECURSIVE ProcessTabulars(_, _, _, _)
ProcessTabulars(id_mapping, section_map, tabular, n) ==
    IF n = 0 THEN [raised |-> FALSE, section_map |-> section_map]
    ELSE LET before == ProcessTabulars(id_mapping, section_map, tabular, n - 1)
         IN  IF before.raised THEN Raised
             ELSE ProcessTabular(id_mapping, before.section_map, tabular[n][1], tabular[n][2])

\* the three passes in the order of the code: pdfValues, tabularValues, customValues
BuildSectionsCustomFirst(form) ==
    LET id_mapping == IdMappingOf(form)
        custom == ProcessItems(id_mapping, << >>, form.customValues,
                               Len(form.customValues), "Custom Fields")
        flat == IF custom.raised THEN Raised
                ELSE ProcessItems(id_mapping, custom.section_map, form.pdfValues,
                                  Len(form.pdfValues), "General")
    IN  IF flat.raised THEN Raised
        ELSE ProcessTabulars(id_mapping, flat.section_map, form.tabularValues,
                             Len(form.tabularValues))

BuildSections(form) ==
    LET id_mapping == IdMappingOf(form)
        flat == ProcessItems(id_mapping, << >>, form.pdfValues, Len(form.pdfValues), "General")
        tabular == IF flat.raised THEN Raised
                   ELSE ProcessTabulars(id_mapping, flat.section_map, form.tabularValues,
                                        Len(form.tabularValues))
    IN  IF tabular.raised THEN Raised
        ELSE ProcessItems(id_mapping, tabular.section_map, form.customValues,
                          Len(form.customValues), "Custom Fields")

\* what a handler answers: the sections, or the 500 of its "except Exception"
NoAnswer == [status |-> 0, sections |-> << >>]
Answer(form) ==
    LET built == BuildSections(form)
    IN  IF built.raised THEN [status |-> 500, sections |-> << >>]
        ELSE [status |-> 200, sections |-> built.section_map]

-----------------------------------------------------------------------------
(* Inputs: the form records the Forms Data Source can hand to a handler *)

MaxFlat == 2      \* pdfValues entries of a form
MaxCustom == 2    \* customValues entries of a form
MaxTab == 2       \* tabularValues sections of a form
MaxRows == 2      \* rows of one tabular section

SeqsUpTo(S, n) == UNION {[1..k -> S] : k \in 0..n}

\* the id_mapping of the form template used throughout
IdMap ==
    ("s1" :> PyStr("General")) @@ ("t1" :> PyStr("General")) @@
    ("i1" :> PyStr("Reference Number")) @@ ("qty" :> PyStr("Quantity")) @@
    ("v1" :> PyStr("Yes"))

NoItem ==
    [sectionId |-> Missing, sectionLabel |-> Missing, itemId |-> Missing,
     itemLabel |-> Missing, dateVal |-> Missing, numVal |-> Missing,
     boolVal |-> Missing, listVal |-> Missing, objVal |-> Missing, textVal |-> Missing,
     numberVal |-> Missing]

\* a form record; the keys read only by the relationship resolution are absent
Form(template, alt_template, pdf, tabular, custom) ==
    [id |-> PyStr("F1"), formTemplate |-> template, form_template |-> alt_template,
     pdfValues |-> pdf, tabularValues |-> tabular, customValues |-> custom,
     locationId |-> Missing, assetId |-> Missing, relationships |-> Missing,
     references |-> Missing, relatedItems |-> Missing]

\* one raw field with every combination of populated slots (well typed: each slot
\* is absent, empty, or holds a value of its own type)
SlotItems ==
    {[NoItem EXCEPT !.sectionLabel = PyStr("Site"), !.itemLabel = PyStr("Ref"),
                    !.dateVal = dv, !.numVal = nv, !.boolVal = bv,
                    !.listVal = lv, !.objVal = ov, !.textVal = tv] :
        dv \in {Missing, PyStr(""), PyStr("2024-05-01")},
        nv \in {Missing, PyInt(0), PyInt(5)},
        bv \in {None, PyBool(FALSE), PyBool(TRUE)},
        lv \in {Missing, PyList(<< >>), PyList(<<PyStr("v1"), PyStr("zz")>>)},
        ov \in {Missing, PyDict(<< >>), PyDict(<< <<"qty", PyStr("v1")>> >>)},
        tv \in {Missing, PyStr(""), PyStr("ignored")}}

\* one raw field with every combination of identifiers and labels
LabelItems ==
    {[NoItem EXCEPT !.sectionId = si, !.sectionLabel = sl, !.itemId = ii,
                    !.itemLabel = il, !.textVal = tv] :
        si \in {Missing, PyStr("s1"), PyStr("s9")},
        sl \in {Missing, PyStr("Site")},
        ii \in {Missing, PyStr("i1"), PyStr("i9")},
        il \in {Missing, PyStr("Ref")},
        tv \in {Missing, PyStr("v1"), PyStr("EOT-001")}}

Templates == {<<IdMap, NoTemplate>>, <<NoTemplate, IdMap>>, <<NoTemplate, NoTemplate>>}

\* forms of one field, in the flat or in the custom container
NormalizeForms ==
    {Form(t[1], t[2], <<item>>, << >>, << >>) : t \in Templates, item \in SlotItems \cup LabelItems}
    \cup
    {Form(t[1], t[2], << >>, << >>, <<item>>) : t \in Templates, item \in SlotItems \cup LabelItems}

\* the i-th flat field: the first is the reference number of the form
FlatItemAt(i, title) ==
    [NoItem EXCEPT !.sectionLabel = title,
                   !.itemLabel = PyStr(IF i = 1 THEN "Reference Number"
                                       ELSE "Item " \o ToString(i)),
                   !.textVal = PyStr(IF i = 1 THEN "EOT-001" ELSE "v1")]

CustomItemAt(i, title) ==
    [NoItem EXCEPT !.sectionLabel = title,
                   !.itemLabel = PyStr("Custom " \o ToString(i)),
                   !.numVal = PyInt(i)]

\* the k-th row of a tabular section: without cells, or with the section's columns
RowAt(section, k, shape) ==
    IF shape = "empty" THEN PyDict(<< >>)
    ELSE IF section = "Costs" THEN PyDict(<< <<"amount", PyInt(100 * k)>> >>)
    ELSE PyDict(<< <<"qty", PyInt(k)>>, <<"ok", PyBool(TRUE)>>, <<"note", PyStr("v1")>> >>)

TabKeys == {"Costs", "t1"}

KeySeqs ==
    {ks \in SeqsUpTo(TabKeys, MaxTab) : \A i, j \in 1..Len(ks) : i # j => ks[i] # ks[j]}

\* n rows of a section, the m-th of them without cells (none when m is no row)
RowsOf(section, n, m) ==
    PyList([k \in 1..n |-> RowAt(section, k, IF k = m THEN "empty" ELSE "full")])

TabularInputs ==
    UNION {{[i \in 1..Len(ks) |-> <<ks[i], RowsOf(ks[i], nm[i][1], nm[i][2])>>] :
              nm \in [1..Len(ks) -> (0..MaxRows) \X (0..MaxRows)]} :
           ks \in KeySeqs}

\* n flat fields under "General", the m-th of them under "Costs"
FlatInputs ==
    {[i \in 1..nm[1] |-> FlatItemAt(i, IF i = nm[2] THEN PyStr("Costs")
                                       ELSE PyStr("General"))] :
        nm \in (0..MaxFlat) \X (0..MaxFlat)}

\* n custom fields without section label, the m-th of them under "Costs"
CustomInputs ==
    {[i \in 1..nm[1] |-> CustomItemAt(i, IF i = nm[2] THEN PyStr("Costs") ELSE Missing)] :
        nm \in (0..MaxCustom) \X (0..MaxCustom)}

\* forms with fields in all three containers
SectionForms ==
    {Form(IdMap, NoTemplate, pdf, tabular, custom) :
        pdf \in FlatInputs, tabular \in TabularInputs, custom \in CustomInputs}

\* raw fields whose slots hold content of the wrong shape: an objVal that is no
\* mapping, a listVal element or a textVal that is a collection
MalformedItems ==
    {[NoItem EXCEPT !.sectionLabel = PyStr("Site"), !.itemLabel = PyStr("Ref"),
                    !.dateVal = dv, !.numVal = nv,
                    !.listVal = lv, !.objVal = ov, !.textVal = tv] :
        dv \in {Missing, PyStr("2024-05-01")},
        nv \in {Missing, PyInt(0)},
        lv \in {Missing, PyList(<<PyStr("v1")>>), PyList(<<PyList(<<PyStr("v1")>>)>>),
                PyList(<<PyDict(<< >>)>>)},
        ov \in {Missing, PyDict(<< <<"qty", PyStr("v1")>> >>), PyStr("oops"),
                PyList(<<PyStr("v1")>>)},
        tv \in {Missing, PyStr("EOT-001"), PyList(<<PyStr("v1")>>),
                PyDict(<< <<"qty", PyStr("v1")>> >>)}}

\* rows that are no mapping, and cells holding nested collections
MalformedRows ==
    {PyDict(<< <<"amount", PyInt(100)>> >>),
     PyStr("row"),
     PyDict(<< <<"tags", PyList(<<PyStr("v1"), PyList(<<PyStr("zz")>>)>>)>> >>),
     PyDict(<< <<"dims", PyDict(<< <<"qty", PyDict(<< >>)>> >>)>> >>)}

MalformedForms ==
    {Form(IdMap, NoTemplate, <<item>>, << >>, << >>) : item \in MalformedItems}
    \cup {Form(IdMap, NoTemplate, << >>, << >>, <<item>>) : item \in MalformedItems}
    \cup {Form(IdMap, NoTemplate, << >>, << <<"Costs", PyList(rows)>> >>, << >>) :
            rows \in SeqsUpTo(MalformedRows, MaxRows)}

-----------------------------------------------------------------------------
(* Handlers. Each builds the sections of the form it was asked for and       *)
(* answers with them; the session check, the fetch of the forms list and     *)
(* the rendering of the answer are outside the model.                        *)

view_form ==
    /\ form_info' = Answer(form_data)
    /\ UNCHANGED <<form_data, service, assets>>
    /\ UNCHANGED export_vars

export_forms ==
    /\ form_info' = Answer(form_data)
    /\ UNCHANGED <<form_data, service, assets>>
    /\ UNCHANGED export_vars

export_form_pdf ==
    /\ form_info' = Answer(form_data)
    /\ UNCHANGED <<form_data, service, assets>>
    /\ UNCHANGED export_vars

export_forms_zip ==
    /\ form_info' = Answer(form_data)
    /\ UNCHANGED <<form_data, service, assets>>
    /\ UNCHANGED export_vars

NextForms ==
    \/ view_form
    \/ export_forms
    \/ export_form_pdf
    \/ export_forms_zip

\* current_progress as the module defines it
InitialProgress ==
    [percentage |-> 0, message |-> "", current |-> 0, total |-> 0, project_id |-> None]

\* a table without rows, and cache.db as init_cache_database creates it
EmptyTable == [project_id \in {} |-> None]
\* cache.db as init_cache_database leaves it: three tables without rows.
\* oversize: the file is larger than CACHE_SIZE_THRESHOLD; unavailable: the
\* statements on the file raise (no tables, not a database, locked)
EmptyDb ==
    [location_cache |-> EmptyTable, forms_cache |-> EmptyTable,
     relationships_cache |-> EmptyTable, oversize |-> FALSE, unavailable |-> FALSE]

NotPolled == [project_id |-> "", answer |-> None, pending |-> FALSE]

Tables == {"location_cache", "forms_cache", "relationships_cache"}

\* no table has been read
NoRead ==
    [project_id |-> "", key |-> "", value |-> None, source |-> "none",
     stored |-> FALSE, at |-> 0]
NoLookup == [table \in Tables |-> NoRead]

\* no export request is served and the cache is as created
NoExport ==
    /\ current_progress = InitialProgress
    /\ location_cache = EmptyTable
    /\ cache_db = EmptyDb
    /\ clock = [utc |-> 0, utc_offset |-> 0]
    /\ batch = << >>
    /\ polled = NotPolled
    /\ lookup = NoLookup

\* no relationship has been asked for
NoService == << >>
NotAsked == [by |-> "none", list |-> << >>]
NoRelationships ==
    /\ service = NoService
    /\ assets = NotAsked

InitNormalize ==
    /\ form_data \in NormalizeForms
    /\ form_info = NoAnswer
    /\ NoRelationships
    /\ NoExport

InitSections ==
    /\ form_data \in SectionForms
    /\ form_info = NoAnswer
    /\ NoRelationships
    /\ NoExport

InitMalformed ==
    /\ form_data \in MalformedForms
    /\ form_info = NoAnswer
    /\ NoRelationships
    /\ NoExport

\* one field, every combination of slots and labels
SpecNormalize == InitNormalize /\ [][NextForms]_vars

\* several fields over the three containers
SpecSections == InitSections /\ [][NextForms]_vars

\* fields, rows and cells of the wrong shape
SpecMalformed == InitMalformed /\ [][NextForms]_vars

-----------------------------------------------------------------------------
(* Properties of the value normalizer, checked under SpecNormalize *)

Answered == form_info # NoAnswer

\* the one raw field of the form and the field built from it
TheItem ==
    IF form_data.pdfValues # << >> THEN form_data.pdfValues[1] ELSE form_data.customValues[1]
TheSection == form_info.sections[1]
TheField == form_info.sections[1].fields[1]
OneField ==
    /\ form_info.status = 200
    /\ Len(form_info.sections) = 1
    /\ Len(TheSection.fields) = 1

SlotNames == <<"dateVal", "numVal", "boolVal", "listVal", "objVal", "textVal">>
SlotKind == <<"date", "number", "bool", "list", "object", "text">>

\* numVal and boolVal are populated when not absent; the other slots when not empty
Populated(item, i) ==
    IF SlotNames[i] \in {"numVal", "boolVal"}
    THEN item[SlotNames[i]] \notin {Missing, None}
    ELSE Truthy(Get(item, SlotNames[i]))
PopulatedSlots(item) == {i \in 1..6 : Populated(item, i)}
FirstPopulated(item) ==
    CHOOSE i \in PopulatedSlots(item) : \A j \in PopulatedSlots(item) : i <= j

\* C1: the kind of a normalized field is that of its first populated slot in the
\* order date, number, boolean, list, object, text (0 and false count as
\* populated); date, number and boolean values pass through unchanged; a field
\* with no populated slot is the text ''.
C1_KindOfFirstPopulatedSlot ==
    Answered =>
        /\ OneField
        /\ IF PopulatedSlots(TheItem) = {}
           THEN TheField.type = "text" /\ TheField.value = PyStr("")
           ELSE LET i == FirstPopulated(TheItem)
                IN  /\ TheField.type = SlotKind[i]
                    /\ i <= 3 => TheField.value = TheItem[SlotNames[i]]

\* numVal = 0 next to textVal = 'ignored' has been normalized to the number 0
C1_Witness ==
    /\ Answered
    /\ TheItem.numVal = PyInt(0)
    /\ TheItem.textVal = PyStr("ignored")
    /\ TheItem.dateVal = Missing
    /\ TheField.type = "number"
    /\ TheField.value = PyInt(0)

\* the label an identifier resolves to: the mapped one for a key of the mapping,
\* the fallback otherwise
MappedOr(id_mapping, id, fallback) ==
    IF id \in DOMAIN id_mapping THEN id_mapping[id] ELSE fallback

IdOrEmpty(v) == IF v = Missing THEN "" ELSE v.s

LabelsResolved ==
    LET id_mapping == IdMappingOf(form_data)
        default_section == IF form_data.pdfValues # << >> THEN "General" ELSE "Custom Fields"
    IN  /\ OneField
        /\ TheField.label =
              MappedOr(id_mapping, IdOrEmpty(TheItem.itemId),
                       IF TheItem.itemLabel = Missing THEN PyStr("Field") ELSE TheItem.itemLabel)
        /\ TheSection.title =
              MappedOr(id_mapping, IdOrEmpty(TheItem.sectionId),
                       IF TheItem.sectionLabel = Missing THEN PyStr(default_section)
                       ELSE TheItem.sectionLabel)
        /\ TheField.type = "text" /\ TheItem.textVal # Missing =>
              TheField.value = MappedOr(id_mapping, TheItem.textVal.s, TheItem.textVal)

\* C5: the lookup answers for every identifier, with the mapped label for a key of
\* the id mapping and with the fallback otherwise ('Field', 'General' or 'Custom
\* Fields' when the label is missing), and no handler changes the mapping.
C5_LookupTotalAndPure ==
    [][/\ LabelsResolved'
       /\ IdMappingOf(form_data)' = IdMappingOf(form_data)]_vars

\* an identifier that is no key, with no itemLabel, has resolved to 'Field'
C5_Witness ==
    /\ Answered
    /\ IdMappingOf(form_data) = IdMap
    /\ TheItem.itemId = PyStr("i9")
    /\ TheItem.itemLabel = Missing
    /\ TheField.label = PyStr("Field")

-----------------------------------------------------------------------------
(* Properties of the section builder, checked under SpecSections *)

Sections == form_info.sections
TitlesOf(sections) == {sections[i].title : i \in 1..Len(sections)}

\* what each entry of the three containers contributes, in the order flat,
\* tabular, custom: a title and the fields that go under it
Contribution(title, fields) == [title |-> title, fields |-> fields]

ItemContribution(form, item, default_section) ==
    LET one == ProcessItem(IdMappingOf(form), << >>, item, default_section).section_map[1]
    IN  Contribution(one.title, one.fields)

TabularContribution(form, entry) ==
    Contribution(MappedOr(IdMappingOf(form), entry[1], PyStr(entry[1])),
                 RowsFields(IdMappingOf(form), entry[2].l, Len(entry[2].l)))

Contributions(form) ==
    [i \in 1..Len(form.pdfValues) |-> ItemContribution(form, form.pdfValues[i], "General")]
    \o [i \in 1..Len(form.tabularValues) |-> TabularContribution(form, form.tabularValues[i])]
    \o [i \in 1..Len(form.customValues) |->
            ItemContribution(form, form.customValues[i], "Custom Fields")]

\* the fields contributed under a title by the first n contributions, in order
RECURSIVE FieldsUnder(_, _, _)
FieldsUnder(contribs, title, n) ==
    IF n = 0 THEN << >>
    ELSE FieldsUnder(contribs, title, n - 1)
            \o (IF contribs[n].title = title THEN contribs[n].fields ELSE << >>)

\* where a title first contributes a field
FirstSeen(contribs, title) ==
    CHOOSE k \in 1..Len(contribs) :
        /\ contribs[k].title = title /\ contribs[k].fields # << >>
        /\ \A j \in 1..(k - 1) : ~(contribs[j].title = title /\ contribs[j].fields # << >>)

\* C2: equal titles are merged into one section whatever the container; a section
\* holds its flat fields, then its tabular fields, then its custom fields, each in
\* input order; the sections stand in the order their titles were first seen.
C2_SectionsMergedInFirstSeenOrder ==
    Answered =>
        LET contribs == Contributions(form_data)
        IN  /\ form_info.status = 200
            /\ \A i, j \in 1..Len(Sections) : i # j => Sections[i].title # Sections[j].title
            /\ TitlesOf(Sections) =
                 {contribs[k].title : k \in {n \in 1..Len(contribs) : contribs[n].fields # << >>}}
            /\ \A i \in 1..Len(Sections) :
                 Sections[i].fields = FieldsUnder(contribs, Sections[i].title, Len(contribs))
            /\ \A i, j \in 1..Len(Sections) :
                 i < j => FirstSeen(contribs, Sections[i].title)
                            < FirstSeen(contribs, Sections[j].title)

\* 'Costs' has been built from a flat field, two tabular rows and a custom field,
\* after 'General'
C2_Witness ==
    /\ Answered
    /\ Len(Sections) = 2
    /\ Sections[1].title = PyStr("General")
    /\ Sections[2].title = PyStr("Costs")
    /\ Len(Sections[2].fields) = 4
    /\ Sections[2].fields[1].label = PyStr("Item 2")
    /\ Sections[2].fields[2].label = PyStr("amount (Row 1)")
    /\ Sections[2].fields[3].label = PyStr("amount (Row 2)")
    /\ Sections[2].fields[4].label = PyStr("Custom 1")

\* the field a cell must give: typed by the cell's value, labelled by column and row
ExpectedCell(form, column, value, k) ==
    [label |-> PyStr(MappedOr(IdMappingOf(form), column, PyStr(column)).s
                     \o " (Row " \o ToString(k) \o ")"),
     type |-> CASE value.ty = "bool" -> "bool"
                [] value.ty = "int" -> "number"
                [] value.ty = "str" -> "text",
     value |-> IF value.ty = "str"
               THEN MappedOr(IdMappingOf(form), value.s, value) ELSE value]

SectionTitled(title) == Sections[CHOOSE i \in 1..Len(Sections) : Sections[i].title = title]

Occurrences(fields, f) == Cardinality({q \in 1..Len(fields) : fields[q] = f})

RowLabelsRight ==
    /\ form_info.status = 200
    /\ \A j \in 1..Len(form_data.tabularValues) :
        LET entry == form_data.tabularValues[j]
            title == MappedOr(IdMappingOf(form_data), entry[1], PyStr(entry[1]))
        IN  \A k \in 1..Len(entry[2].l) : \A p \in 1..Len(entry[2].l[k].d) :
                /\ title \in TitlesOf(Sections)
                /\ Occurrences(SectionTitled(title).fields,
                               ExpectedCell(form_data, entry[2].l[k].d[p][1],
                                            entry[2].l[k].d[p][2], k)) = 1

\* C3: the field of column c of the k-th row, k counted from 1 over all rows, empty
\* ones included, is labelled '<label of c> (Row k)'; building the sections again
\* from the same input gives the same sections.
C3_RowOrdinalInLabel ==
    [][/\ RowLabelsRight'
       /\ Answered => form_info'.sections = form_info.sections]_vars

\* a row after a row without columns has kept its ordinal 2
C3_Witness ==
    /\ Answered
    /\ form_data.tabularValues = << <<"Costs", PyList(<<RowAt("Costs", 1, "empty"),
                                                         RowAt("Costs", 2, "full")>>)>> >>
    /\ form_data.pdfValues = << >>
    /\ form_data.customValues = << >>
    /\ Sections = <<[title |-> PyStr("Costs"),
                     fields |-> <<Field(PyStr("amount (Row 2)"), "number", PyInt(200))>>]>>

\* a tabular section whose rows give no field
Fieldless(entry) ==
    \A k \in 1..Len(entry[2].l) : entry[2].l[k].d = << >>

ItemTitle(form, item, default_section) ==
    MappedOr(IdMappingOf(form), IdOrEmpty(item.sectionId),
             IF item.sectionLabel = Missing THEN PyStr(default_section) ELSE item.sectionLabel)

\* C4: a tabular section without rows, or whose rows give no field, creates no
\* section: its title is in the answer only if a flat or custom field has it;
\* every section of the answer has at least one field.
C4_NoEmptySection ==
    Answered =>
        /\ form_info.status = 200
        /\ \A i \in 1..Len(Sections) : Sections[i].fields # << >>
        /\ \A j \in 1..Len(form_data.tabularValues) :
             LET entry == form_data.tabularValues[j]
                 title == MappedOr(IdMappingOf(form_data), entry[1], PyStr(entry[1]))
             IN  Fieldless(entry) /\ title \in TitlesOf(Sections) =>
                    \/ \E i \in 1..Len(form_data.pdfValues) :
                         ItemTitle(form_data, form_data.pdfValues[i], "General") = title
                    \/ \E i \in 1..Len(form_data.customValues) :
                         ItemTitle(form_data, form_data.customValues[i], "Custom Fields") = title

\* a form whose only content is a tabular section with an empty row list has been
\* answered without sections
C4_Witness ==
    /\ Answered
    /\ form_data.tabularValues = << <<"Costs", PyList(<< >>)>> >>
    /\ form_data.pdfValues = << >>
    /\ form_data.customValues = << >>
    /\ form_info.status = 200
    /\ Sections = << >>

-----------------------------------------------------------------------------
(* Malformed content, checked under SpecMalformed *)

\* C6: building the sections completes for every form record, malformed slots,
\* rows and cells included: no handler answers with an error.
C6_NormalizationNeverFails ==
    Answered => form_info.status = 200

-----------------------------------------------------------------------------
(* Text operations of the relationship resolution *)

\* s.startswith(p)
StartsWith(s, p) == Len(s) >= Len(p) /\ SubSeq(s, 1, Len(p)) = p

\* sub in text
Contains(text, sub) ==
    \E i \in 1..(Len(text) - Len(sub) + 1) : SubSeq(text, i, i + Len(sub) - 1) = sub

\* the indices of the character c in s
Positions(s, c) == {i \in 1..Len(s) : SubSeq(s, i, i) = c}

Least(S) == CHOOSE i \in S : \A j \in S : i <= j
Greatest(S) == CHOOSE i \in S : \A j \in S : j <= i

\* s.split(c)[-1]
AfterLast(s, c) ==
    IF Positions(s, c) = {} THEN s
    ELSE SubSeq(s, Greatest(Positions(s, c)) + 1, Len(s))

\* s.split(c)[0]
BeforeFirst(s, c) ==
    IF Positions(s, c) = {} THEN s
    ELSE SubSeq(s, 1, Least(Positions(s, c)) - 1)

UpperCase == "ABCDEFGHIJKLMNOPQRSTUVWXYZ"
LowerCase == "abcdefghijklmnopqrstuvwxyz"

LowerChar(c) ==
    IF Positions(UpperCase, c) = {} THEN c
    ELSE LET i == Least(Positions(UpperCase, c)) IN SubSeq(LowerCase, i, i)

\* s.lower()
RECURSIVE Lower(_)
Lower(s) ==
    IF s = "" THEN "" ELSE LowerChar(SubSeq(s, 1, 1)) \o Lower(SubSeq(s, 2, Len(s)))

RECURSIVE LStrip(_)
LStrip(s) ==
    IF s # "" /\ SubSeq(s, 1, 1) = " " THEN LStrip(SubSeq(s, 2, Len(s))) ELSE s

RECURSIVE RStrip(_)
RStrip(s) ==
    IF s # "" /\ SubSeq(s, Len(s), Len(s)) = " "
    THEN RStrip(SubSeq(s, 1, Len(s) - 1)) ELSE s

\* s.strip(), for the blanks the inputs carry
Strip(s) == RStrip(LStrip(s))

-----------------------------------------------------------------------------
(* Asset details *)

\* the first asset of the Assets V2 list whose id is asset_id, or None
RECURSIVE FindAsset(_, _)
FindAsset(results, asset_id) ==
    IF results = << >> THEN None
    ELSE IF Get(Head(results), "id") = asset_id THEN Head(results)
    ELSE FindAsset(Tail(results), asset_id)

\* the record get_asset_details builds from an asset of the list
AssetInfo(asset) ==
    LET client_asset_id == GetOr(asset, "clientAssetId", PyStr("Unknown Asset"))
        asset_description == GetOr(asset, "description", PyStr(""))
    IN  [name |-> IF client_asset_id # PyStr("Unknown Asset")
                  THEN client_asset_id ELSE asset_description,
         description |-> asset_description,
         clientAssetId |-> client_asset_id,
         locationId |-> GetOr(asset, "locationId", PyStr("N/A"))]

\* get_asset_details: the asset list of the project, asked again under the
\* 'b.' project id when the first request fails; None when neither answers or
\* the list does not carry the id
get_asset_details(svc, asset_id) ==
    IF svc.assets_v2_ok \/ svc.assets_v2_alt_ok
    THEN LET asset == FindAsset(svc.assets_v2, asset_id)
         IN  IF asset = None THEN None ELSE AssetInfo(asset)
    ELSE None

-----------------------------------------------------------------------------
(* Relationship-graph lookup *)

UrnPrefix == "urn:adsk.wipprod:dm.lineage:"

\* entity_id.startswith(...) raises on an entity without an id
CleanRaises(entity) == Get(entity, "id").ty # "str"

\* a variant that removes the lineage prefix and keeps all that follows it
CleanEntityIdStripsPrefix(entity) ==
    LET entity_id == Get(entity, "id")
    IN  IF StartsWith(entity_id.s, UrnPrefix)
        THEN PyStr(SubSeq(entity_id.s, Len(UrnPrefix) + 1, Len(entity_id.s)))
        ELSE entity_id

\* the entity id, cut down to its last ':'-separated part when it starts with
\* the lineage prefix
CleanEntityId(entity) ==
    LET entity_id == Get(entity, "id")
    IN  IF StartsWith(entity_id.s, UrnPrefix)
        THEN PyStr(AfterLast(entity_id.s, ":")) ELSE entity_id

\* the entry appended for an asset entity whose details were found
GraphEntry(clean_entity_id, asset_details, relationship) ==
    [id |-> clean_entity_id,
     name |-> asset_details.name,
     description |-> asset_details.description,
     clientAssetId |-> asset_details.clientAssetId,
     locationId |-> asset_details.locationId,
     type |-> "asset",
     relationship_id |-> Get(relationship, "id")]

\* entities.get('entities', [])
EntitiesOf(relationship) ==
    IF relationship.entities = Missing THEN << >> ELSE relationship.entities.l

\* the loop over the entities of one relationship: whether the form is among
\* them, and the entries of its asset entities
RECURSIVE ScanEntities(_, _, _, _, _)
ScanEntities(svc, form_id, relationship, entities, acc) ==
    IF entities = << >> THEN acc
    ELSE LET entity == Head(entities)
             clean_entity_id == CleanEntityId(entity)
             asset_details == get_asset_details(svc, clean_entity_id)
             next ==
               IF Get(entity, "type") = PyStr("form") /\ clean_entity_id = form_id
               THEN [acc EXCEPT !.form_involved = TRUE]
               ELSE IF Get(entity, "type") = PyStr("asset") /\ asset_details # None
               THEN [acc EXCEPT !.other_entities =
                       Append(@, GraphEntry(clean_entity_id, asset_details, relationship))]
               ELSE acc
         IN  ScanEntities(svc, form_id, relationship, Tail(entities), next)

\* the loop over all relationships: the entries of a relationship are taken
\* when the form is involved in it
RECURSIVE ScanRelationships(_, _, _)
ScanRelationships(svc, form_id, all_relationships) ==
    IF all_relationships = << >> THEN << >>
    ELSE LET relationship == Head(all_relationships)
             scan == ScanEntities(svc, form_id, relationship, EntitiesOf(relationship),
                                  [form_involved |-> FALSE, other_entities |-> << >>])
         IN  (IF scan.form_involved /\ scan.other_entities # << >>
              THEN scan.other_entities ELSE << >>)
             \o ScanRelationships(svc, form_id, Tail(all_relationships))

\* an entity without a (string) id makes the loop raise
ScanRaises(all_relationships) ==
    \E i \in 1..Len(all_relationships) :
       \E j \in 1..Len(EntitiesOf(all_relationships[i])) :
          CleanRaises(EntitiesOf(all_relationships[i])[j])

\* search_project_relationships: every relationship of the project, or none
\* when the search does not answer
search_project_relationships(svc) ==
    IF svc.relationships_ok THEN svc.relationships ELSE << >>

\* find_relationships_for_form(form_id, ...): [] when the loop raises
FormRelationships(svc, form_id) ==
    LET all_relationships == search_project_relationships(svc)
    IN  IF ScanRaises(all_relationships) THEN << >>
        ELSE ScanRelationships(svc, form_id, all_relationships)

-----------------------------------------------------------------------------
(* References of a form: get_form_references and its helpers *)

\* the form relationship fields are held as the list relationships.fields.data,
\* each field as [name, asset]: the name of relationship.fieldDefinition and the
\* id of relationship.relatedAsset.data
FieldReference(svc, field, found_in, also_unknown) ==
    LET field_name == Lower(GetOr(field, "name", PyStr("")).s)
        asset_id == Get(field, "asset")
        asset_details == get_asset_details(svc, asset_id)
    IN  IF ~Contains(field_name, "asset") \/ ~Truthy(asset_id) THEN << >>
        ELSE IF asset_details # None
        THEN << [id |-> asset_id, name |-> asset_details.name,
                 description |-> asset_details.description,
                 type |-> "form_relationship_field",
                 match_reason |-> found_in \o field_name,
                 relationship_id |-> None, field_name |-> field_name] >>
        ELSE IF also_unknown
        THEN << [id |-> asset_id, name |-> PyStr("Unknown Asset"),
                 description |-> PyStr("Asset from relationship field: " \o field_name),
                 type |-> "form_relationship_field",
                 match_reason |-> found_in \o field_name
                                  \o " (ID: " \o Format(asset_id) \o ")",
                 relationship_id |-> None, field_name |-> field_name] >>
        ELSE << >>

\* the relationship fields of the form record itself: every asset field gives
\* an entry
RECURSIVE FormFieldReferences(_, _)
FormFieldReferences(svc, fields_data) ==
    IF fields_data = << >> THEN << >>
    ELSE FieldReference(svc, Head(fields_data), "Found in relationship field: ", TRUE)
         \o FormFieldReferences(svc, Tail(fields_data))

\* the relationship fields of the detailed form: an asset already among the
\* references is skipped, and so is an asset without details
RECURSIVE DetailedFieldReferences(_, _, _)
DetailedFieldReferences(svc, fields_data, references) ==
    IF fields_data = << >> THEN references
    ELSE LET asset_id == Get(Head(fields_data), "asset")
             seen == \E k \in 1..Len(references) : references[k].id = asset_id
             more == IF seen THEN << >>
                     ELSE FieldReference(svc, Head(fields_data),
                            "Found in detailed form relationship field: ", FALSE)
         IN  DetailedFieldReferences(svc, Tail(fields_data), references \o more)

\* reference_item[k] for the first of the keys the item carries, else None
FirstKey(reference_item, keys) ==
    IF keys = << >> THEN None
    ELSE IF reference_item[keys[1]] # Missing THEN reference_item[keys[1]]
    ELSE IF Len(keys) > 1 /\ reference_item[keys[2]] # Missing
    THEN reference_item[keys[2]]
    ELSE None

\* extract_asset_from_reference: an entry for an item that names an asset id
extract_asset_from_reference(svc, reference_item) ==
    LET asset_id == FirstKey(reference_item, <<"id", "assetId">>)
        asset_name == FirstKey(reference_item, <<"name">>)
        asset_details == get_asset_details(svc, asset_id)
    IN  IF ~Truthy(asset_id) THEN << >>
        ELSE IF asset_details # None
        THEN << [id |-> asset_id, name |-> asset_details.name,
                 description |-> asset_details.description,
                 type |-> "form_reference",
                 match_reason |-> "Direct reference in form data"] >>
        ELSE << [id |-> asset_id,
                 name |-> IF Truthy(asset_name) THEN asset_name
                          ELSE PyStr("Unknown Asset"),
                 description |-> PyStr("Asset details not available"),
                 type |-> "form_reference",
                 match_reason |-> "Direct reference in form data (ID: "
                                  \o Format(asset_id) \o ")"] >>

\* the items of a list of references that are typed asset or carry an assetId
RECURSIVE ListReferences(_, _)
ListReferences(svc, items) ==
    IF items = << >> THEN << >>
    ELSE LET item == Head(items)
         IN  (IF item.type = PyStr("asset") \/ item.assetId # Missing
              THEN extract_asset_from_reference(svc, item) ELSE << >>)
             \o ListReferences(svc, Tail(items))

\* every item of a list under an asset key
RECURSIVE AllReferences(_, _)
AllReferences(svc, items) ==
    IF items = << >> THEN << >>
    ELSE extract_asset_from_reference(svc, Head(items))
         \o AllReferences(svc, Tail(items))

\* the lists a dictionary of references holds under its asset keys
RECURSIVE DictReferences(_, _)
DictReferences(svc, pairs) ==
    IF pairs = << >> THEN << >>
    ELSE LET ref_type == Head(pairs)[1]
             ref_items == Head(pairs)[2]
         IN  (IF ref_items.ty = "list" /\ Contains(Lower(ref_type), "asset")
              THEN AllReferences(svc, ref_items.l) ELSE << >>)
             \o DictReferences(svc, Tail(pairs))

\* process_form_references: a dictionary by reference type, or a list of items
process_form_references(svc, references_data) ==
    CASE references_data.ty = "dict" -> DictReferences(svc, references_data.d)
      [] references_data.ty = "list" -> ListReferences(svc, references_data.l)
      [] OTHER -> << >>

\* get_form_entity_info: the form id in lineage form
FormEntityId(form_id) ==
    IF StartsWith(form_id.s, "urn:") THEN form_id ELSE PyStr(UrnPrefix \o form_id.s)

\* the asset entities of the relationships a form search returned; only an
\* asset whose details are found gives an entry, and the entry has no
\* match_reason
RECURSIVE SearchEntities(_, _, _)
SearchEntities(svc, relationship, entities) ==
    IF entities = << >> THEN << >>
    ELSE LET entity == Head(entities)
             entity_id == Get(entity, "id")
             asset_details == get_asset_details(svc, entity_id)
         IN  (IF Get(entity, "type") = PyStr("asset") /\ asset_details # None
              THEN << [id |-> entity_id, name |-> asset_details.name,
                       description |-> asset_details.description,
                       clientAssetId |-> asset_details.clientAssetId,
                       locationId |-> asset_details.locationId,
                       type |-> "asset",
                       relationship_id |-> Get(relationship, "id")] >>
              ELSE << >>)
             \o SearchEntities(svc, relationship, Tail(entities))

RECURSIVE SearchRelationships(_, _)
SearchRelationships(svc, relationships) ==
    IF relationships = << >> THEN << >>
    ELSE SearchEntities(svc, Head(relationships), EntitiesOf(Head(relationships)))
         \o SearchRelationships(svc, Tail(relationships))

\* search_form_relationships: the search under the project id, then under the
\* 'b.' project id; the first that answers decides
search_form_relationships(svc) ==
    IF svc.search_ok \/ svc.search_alt_ok
    THEN SearchRelationships(svc, svc.search_relationships)
    ELSE << >>

\* extract_asset_from_relationship_entity: an entry with or without details
extract_asset_from_relationship_entity(svc, entity, relationship_id) ==
    LET entity_id == Get(entity, "id")
        domain == Format(Get(entity, "domain"))
        asset_details == get_asset_details(svc, entity_id)
    IN  IF Get(entity, "type") # PyStr("asset") THEN << >>
        ELSE IF asset_details # None
        THEN << [id |-> entity_id, name |-> asset_details.name,
                 description |-> asset_details.description,
                 type |-> "relationship_service",
                 match_reason |-> "Direct relationship via " \o domain,
                 relationship_id |-> relationship_id] >>
        ELSE << [id |-> entity_id, name |-> PyStr("Unknown Asset"),
                 description |-> PyStr("Asset from " \o domain),
                 type |-> "relationship_service",
                 match_reason |-> "Direct relationship via " \o domain
                                  \o " (ID: " \o Format(entity_id) \o ")",
                 relationship_id |-> relationship_id] >>

\* the entities of a relationship other than the entity at hand
RECURSIVE OtherEntities(_, _, _, _)
OtherEntities(svc, relationship, entity_id, entities) ==
    IF entities = << >> THEN << >>
    ELSE (IF Get(Head(entities), "id") # entity_id
          THEN extract_asset_from_relationship_entity(
                  svc, Head(entities), Get(relationship, "id"))
          ELSE << >>)
         \o OtherEntities(svc, relationship, entity_id, Tail(entities))

\* for every entity that is the form, under its id or its lineage id, the
\* other entities of the relationship
RECURSIVE ContainerEntities(_, _, _, _)
ContainerEntities(svc, form_id, relationship, entities) ==
    IF entities = << >> THEN << >>
    ELSE LET entity_id == Get(Head(entities), "id")
         IN  (IF entity_id = form_id \/ entity_id = FormEntityId(form_id)
              THEN OtherEntities(svc, relationship, entity_id, EntitiesOf(relationship))
              ELSE << >>)
             \o ContainerEntities(svc, form_id, relationship, Tail(entities))

RECURSIVE ContainerRelationships(_, _, _)
ContainerRelationships(svc, form_id, relationships) ==
    IF relationships = << >> THEN << >>
    ELSE ContainerEntities(svc, form_id, Head(relationships),
                           EntitiesOf(Head(relationships)))
         \o ContainerRelationships(svc, form_id, Tail(relationships))

\* the fallback over all relationships of the container, asked again under the
\* 'b.' container id when the first request fails and the project id has no 'b.'
ContainerReferences(svc, form_id) ==
    IF svc.container_ok
       \/ (~StartsWith(svc.project_id, "b.") /\ svc.container_alt_ok)
    THEN ContainerRelationships(svc, form_id, svc.container_relationships)
    ELSE << >>

\* the references the detailed form adds to those found so far
DetailedReferences(svc, references) ==
    LET detailed_form == svc.detailed_form
        with_fields ==
          IF detailed_form.relationships # Missing
          THEN DetailedFieldReferences(svc, detailed_form.relationships.l, references)
          ELSE references
        RECURSIVE DataReferences(_)
        DataReferences(pairs) ==
          IF pairs = << >> THEN << >>
          ELSE LET key == Lower(Head(pairs)[1])
                   value == Head(pairs)[2]
               IN  (IF (Contains(key, "reference") \/ Contains(key, "related")
                        \/ Contains(key, "asset")) /\ Truthy(value)
                    THEN process_form_references(svc, value) ELSE << >>)
                   \o DataReferences(Tail(pairs))
    IN  IF detailed_form = None THEN references
        ELSE with_fields \o
             (IF detailed_form.data # Missing
              THEN DataReferences(detailed_form.data.d) ELSE << >>)

\* get_form_references: every source in turn, the entries of all of them kept
get_form_references(svc, form) ==
    LET form_id == Get(form, "id")
        from_fields ==
          IF form.relationships # Missing
          THEN FormFieldReferences(svc, form.relationships.l) ELSE << >>
        from_references ==
          IF form.references # Missing
          THEN process_form_references(svc, form.references) ELSE << >>
        from_related ==
          IF form.relatedItems # Missing
          THEN process_form_references(svc, form.relatedItems) ELSE << >>
        references ==
          DetailedReferences(svc, from_fields \o from_references \o from_related)
        search_references == search_form_relationships(svc)
    IN  references \o search_references \o
        (IF search_references = << >> THEN ContainerReferences(svc, form_id)
         ELSE << >>)

-----------------------------------------------------------------------------
(* Content matching and embedded references *)

\* the text of a list of fields: " textVal" and " itemLabel" of every item that
\* has them
RECURSIVE ItemsText(_)
ItemsText(items) ==
    IF items = << >> THEN ""
    ELSE LET item == Head(items)
         IN  (IF Truthy(Get(item, "textVal"))
              THEN " " \o Format(item.textVal) ELSE "")
             \o (IF Truthy(Get(item, "itemLabel"))
                 THEN " " \o Format(item.itemLabel) ELSE "")
             \o ItemsText(Tail(items))

\* the text cells of a row
RECURSIVE CellsText(_)
CellsText(cells) ==
    IF cells = << >> THEN ""
    ELSE (IF Head(cells)[2].ty = "str" THEN " " \o Head(cells)[2].s ELSE "")
         \o CellsText(Tail(cells))

RECURSIVE RowsText(_)
RowsText(rows) ==
    IF rows = << >> THEN ""
    ELSE CellsText(Head(rows).d) \o RowsText(Tail(rows))

\* the text of the tabular sections: " section_name" and the text cells
RECURSIVE TabularText(_)
TabularText(tabular_values) ==
    IF tabular_values = << >> THEN ""
    ELSE LET rows == Head(tabular_values)[2]
         IN  " " \o Head(tabular_values)[1]
             \o (IF Truthy(rows) THEN RowsText(rows.l) ELSE "")
             \o TabularText(Tail(tabular_values))

\* iterating truthy rows that are no list of dictionaries raises
TabularTextRaises(tabular_values) ==
    \E i \in 1..Len(tabular_values) :
       LET rows == tabular_values[i][2]
       IN  Truthy(rows) /\ (rows.ty # "list"
                            \/ \E k \in 1..Len(rows.l) : rows.l[k].ty # "dict")

\* asset.get('attributes', {}).get(key, default)
Attribute(asset, key, default) ==
    IF asset.attributes = Missing THEN default
    ELSE GetOr(asset.attributes, key, default)

\* the name_match or description_match entry of an asset, if any
ContentMatch(asset, form_text) ==
    LET asset_name == Lower(Attribute(asset, "name", PyStr("")).s)
        asset_desc == Lower(Attribute(asset, "description", PyStr("")).s)
        entry(type, reason) ==
          [id |-> GetOr(asset, "id", PyStr("")),
           name |-> Attribute(asset, "name", PyStr("Unknown Asset")),
           description |-> Attribute(asset, "description", PyStr("")),
           type |-> type, match_reason |-> reason]
    IN  IF asset_name # "" /\ Contains(form_text, asset_name)
        THEN << entry("name_match",
                      "Asset name \"" \o asset_name \o "\" found in form content") >>
        ELSE IF asset_desc # "" /\ Contains(form_text, asset_desc)
        THEN << entry("description_match", "Asset description found in form content") >>
        ELSE << >>

RECURSIVE ContentMatches(_, _)
ContentMatches(available_assets, form_text) ==
    IF available_assets = << >> THEN << >>
    ELSE ContentMatch(Head(available_assets), form_text)
         \o ContentMatches(Tail(available_assets), form_text)

\* the location_match entries: the assets at the location of the form
RECURSIVE LocationMatches(_, _)
LocationMatches(available_assets, location_id) ==
    IF available_assets = << >> THEN << >>
    ELSE LET asset == Head(available_assets)
         IN  (IF Attribute(asset, "locationId", None) = location_id
              THEN << [id |-> GetOr(asset, "id", PyStr("")),
                       name |-> Attribute(asset, "name", PyStr("Unknown Asset")),
                       description |-> Attribute(asset, "description", PyStr("")),
                       type |-> "location_match",
                       match_reason |-> "Same location as form (ID: "
                                        \o Format(location_id) \o ")"] >>
              ELSE << >>)
             \o LocationMatches(Tail(available_assets), location_id)

\* re.search(r'\[([^\]]+)\]', value): the leftmost '[' that is followed by at
\* least one character other than ']' and then by a ']'; None without a match
BracketStarts(value) ==
    {i \in Positions(value, "[") :
       /\ i + 1 <= Len(value)
       /\ SubSeq(value, i + 1, i + 1) # "]"
       /\ \E j \in Positions(value, "]") : j > i}

\* group(1) of the match: the text up to the first ']' after the '['
BracketGroup(value) ==
    LET i == Least(BracketStarts(value))
        j == Least({k \in Positions(value, "]") : k > i})
    IN  SubSeq(value, i + 1, j - 1)

AssetKeywords == {"asset", "equipment", "component", "reference"}

\* the value of a custom field as the embedded check reads it
EmbeddedValue(item) ==
    IF Truthy(Get(item, "textVal")) THEN item.textVal
    ELSE IF Get(item, "numberVal") # None THEN PyStr(Format(item.numberVal))
    ELSE IF Truthy(Get(item, "dateVal")) THEN item.dateVal
    ELSE None

\* the entries a custom field gives: an embedded_reference for a bracketed id,
\* and a field_reference when the label names an asset
EmbeddedOfItem(item) ==
    LET label == Lower(GetOr(item, "itemLabel", PyStr("")).s)
        value == EmbeddedValue(item)
        item_label == Format(GetOr(item, "itemLabel", PyStr("")))
    IN  (IF Truthy(value) /\ BracketStarts(value.s) # {}
         THEN << [id |-> PyStr(BracketGroup(value.s)),
                  name |-> PyStr(Strip(BeforeFirst(value.s, "["))),
                  description |-> PyStr("Found in field: " \o item_label),
                  type |-> "embedded_reference",
                  match_reason |-> "Asset ID found in form field: "
                                   \o BracketGroup(value.s)] >>
         ELSE << >>)
        \o
        (IF Truthy(value) /\ \E keyword \in AssetKeywords : Contains(label, keyword)
         THEN << [id |-> None, name |-> value,
                  description |-> GetOr(item, "itemLabel", PyStr("Asset Reference")),
                  type |-> "field_reference",
                  match_reason |-> "Found in field: " \o item_label] >>
         ELSE << >>)

RECURSIVE EmbeddedOfItems(_)
EmbeddedOfItems(custom_values) ==
    IF custom_values = << >> THEN << >>
    ELSE EmbeddedOfItem(Head(custom_values)) \o EmbeddedOfItems(Tail(custom_values))

\* check_form_for_embedded_relationships: the custom fields, then the assetId
\* of the form record
check_form_for_embedded_relationships(form) ==
    EmbeddedOfItems(form.customValues)
    \o (IF form.assetId # Missing
        THEN << [id |-> form.assetId, name |-> PyStr("Referenced Asset"),
                 description |-> PyStr("Direct asset reference in form metadata"),
                 type |-> "metadata_reference",
                 match_reason |-> "Asset ID in form metadata"] >>
        ELSE << >>)

\* the entries whose id was not seen before, in order
RECURSIVE Unique(_, _)
Unique(entries, seen_ids) ==
    IF entries = << >> THEN << >>
    ELSE IF Head(entries).id \in seen_ids THEN Unique(Tail(entries), seen_ids)
    ELSE <<Head(entries)>> \o Unique(Tail(entries), seen_ids \cup {Head(entries).id})

MostRelevant == 5

\* find_asset_relationships_in_form: the content matches, the location matches
\* and the embedded references, in this order, without repeated ids, the first
\* five of them; [] when reading the form raises
find_asset_relationships_in_form(form, available_assets) ==
    LET form_text == Lower(ItemsText(form.customValues) \o ItemsText(form.pdfValues)
                           \o TabularText(form.tabularValues))
        location_id == Get(form, "locationId")
        found == ContentMatches(available_assets, form_text)
                 \o (IF Truthy(location_id)
                     THEN LocationMatches(available_assets, location_id) ELSE << >>)
                 \o check_form_for_embedded_relationships(form)
        unique_assets == Unique(found, {})
    IN  IF TabularTextRaises(form.tabularValues) THEN << >>
        ELSE SubSeq(unique_assets, 1,
                    IF Len(unique_assets) < MostRelevant THEN Len(unique_assets)
                    ELSE MostRelevant)

\* the content_match entry of an asset whose name is in the text
RECURSIVE NameMatches(_, _)
NameMatches(available_assets, form_text) ==
    IF available_assets = << >> THEN << >>
    ELSE LET asset == Head(available_assets)
             asset_name == Lower(Attribute(asset, "name", PyStr("")).s)
         IN  (IF asset_name # "" /\ Contains(form_text, asset_name)
              THEN << [id |-> GetOr(asset, "id", PyStr("")),
                       name |-> Attribute(asset, "name", PyStr("Unknown Asset")),
                       description |-> Attribute(asset, "description", PyStr("")),
                       type |-> "content_match",
                       match_reason |-> "Asset name found in form content"] >>
              ELSE << >>)
             \o NameMatches(Tail(available_assets), form_text)

\* search_assets_by_form_content: the asset list is asked for again; the names
\* found in the text of the custom fields
search_assets_by_form_content(svc, form) ==
    IF svc.assets_retry_ok
    THEN NameMatches(svc.available_assets, Lower(ItemsText(form.customValues)))
    ELSE << >>

\* the loop that prints name, type and match_reason of every entry raises on an
\* entry without one of the keys
PrintRaises(entries) ==
    \E k \in 1..Len(entries) :
       {"name", "type", "match_reason"} \ DOMAIN entries[k] # {}

\* get_form_asset_relationships: [] for a form without id; the references of the
\* form when there are any, else the content matches; the content search when
\* the asset list does not answer; [] when anything raises
FormAssetRelationships(svc, form) ==
    LET form_references == get_form_references(svc, form)
        found == IF svc.assets_ok
                 THEN IF form_references # << >> THEN form_references
                      ELSE find_asset_relationships_in_form(form, svc.available_assets)
                 ELSE search_assets_by_form_content(svc, form)
    IN  IF ~Truthy(Get(form, "id")) THEN << >>
        ELSE IF PrintRaises(found) THEN << >>
        ELSE found

-----------------------------------------------------------------------------
(* Inputs of the relationship-graph lookup *)

MaxEdges == 2

\* a service that answers no request
QuietService ==
    [project_id |-> "P1", relationships_ok |-> FALSE, relationships |-> << >>,
     assets_v2_ok |-> FALSE, assets_v2_alt_ok |-> FALSE, assets_v2 |-> << >>,
     assets_ok |-> FALSE, assets_retry_ok |-> FALSE, available_assets |-> << >>,
     detailed_form |-> None,
     search_ok |-> FALSE, search_alt_ok |-> FALSE, search_relationships |-> << >>,
     container_ok |-> FALSE, container_alt_ok |-> FALSE,
     container_relationships |-> << >>]

Entity(type, id) ==
    [type |-> PyStr(type), id |-> PyStr(id), domain |-> PyStr("autodesk-bim360-" \o type)]

\* the entity lists the relationships of the project are drawn from
EntityLists ==
    { PyList(<< Entity("form", "F1"), Entity("asset", "A9") >>),
      PyList(<< Entity("asset", "A7"), Entity("form", "F1") >>),
      PyList(<< Entity("form", UrnPrefix \o "F1"), Entity("asset", UrnPrefix \o "A9") >>),
      PyList(<< Entity("form", UrnPrefix \o "x:F1"), Entity("asset", "A7") >>),
      PyList(<< Entity("form", "F2"), Entity("asset", "A7") >>),
      PyList(<< Entity("form", "F1"), Entity("issue", "I1") >>),
      PyList(<< Entity("asset", "A9"), Entity("asset", "A7") >>),
      PyList(<< Entity("form", "F1"), [Entity("asset", "A9") EXCEPT !.id = Missing] >>),
      Missing }

\* relationships R1, R2, .. over a sequence of entity lists
Relationships(lists) ==
    [k \in 1..Len(lists) |-> [id |-> PyStr("R" \o ToString(k)), entities |-> lists[k]]]

Graphs == {Relationships(lists) : lists \in SeqsUpTo(EntityLists, MaxEdges)}

\* the assets of the project as the Assets V2 list carries them
AssetA9 ==
    [id |-> PyStr("A9"), clientAssetId |-> PyStr("PUMP-9"),
     description |-> PyStr("Feed pump"), locationId |-> PyStr("L1")]
AssetA7 ==
    [id |-> PyStr("A7"), clientAssetId |-> Missing,
     description |-> PyStr("Relief valve"), locationId |-> Missing]

AssetLists == {<< >>, <<AssetA9>>, <<AssetA7>>, <<AssetA9, AssetA7>>}

GraphServices ==
    { [QuietService EXCEPT !.relationships_ok = ok, !.relationships = graph,
                           !.assets_v2_ok = v2[1], !.assets_v2_alt_ok = v2[2],
                           !.assets_v2 = list] :
        ok \in BOOLEAN, graph \in Graphs,
        v2 \in {<<TRUE, FALSE>>, <<FALSE, TRUE>>, <<FALSE, FALSE>>},
        list \in AssetLists }

\* a form known by its id only
PlainForm(id) == [Form(NoTemplate, NoTemplate, << >>, << >>, << >>) EXCEPT !.id = id]

GraphForms == {PlainForm(PyStr("F1")), PlainForm(PyStr("F2"))}

-----------------------------------------------------------------------------
(* Inputs of the content matching *)

MaxAssets == 6

\* the k-th asset of the project as the Assets V1 list carries it
AvailableAsset(k) ==
    [id |-> PyStr("A" \o ToString(k)),
     attributes |->
       CASE k = 1 -> [name |-> PyStr("Pump P-1"), description |-> PyStr("Feed pump"),
                      locationId |-> PyStr("L1")]
         [] k = 2 -> [name |-> PyStr("Valve"), description |-> Missing,
                      locationId |-> PyStr("L2")]
         [] k = 3 -> [name |-> PyStr("Motor"), description |-> PyStr("P-1 [A1]"),
                      locationId |-> Missing]
         [] k = 4 -> [name |-> PyStr("pump"), description |-> PyStr("spare"),
                      locationId |-> PyStr("L1")]
         [] k = 5 -> [name |-> PyStr("P-1"), description |-> Missing,
                      locationId |-> Missing]
         [] k = 6 -> [name |-> PyStr("Leak"), description |-> Missing,
                      locationId |-> Missing]
         [] OTHER -> [name |-> Missing, description |-> PyStr("leaking"),
                      locationId |-> Missing]]

AvailableLists == {[k \in 1..n |-> AvailableAsset(k)] : n \in 0..MaxAssets}

\* the custom fields the forms of the content matching are made of
ContentItems ==
    { [NoItem EXCEPT !.itemLabel = PyStr("Notes"),
                     !.textVal = PyStr("Pump P-1 [A1] leaking")],
      [NoItem EXCEPT !.itemLabel = PyStr("Asset tag"), !.textVal = PyStr("Valve")],
      [NoItem EXCEPT !.itemLabel = PyStr("Serial"), !.numberVal = PyInt(42)],
      [NoItem EXCEPT !.textVal = PyStr("see [] and Tank [T-9][A2]")] }

ContentForms ==
    { [PlainForm(PyStr("F1")) EXCEPT !.customValues = custom, !.assetId = asset_id,
                                     !.locationId = location_id] :
        custom \in SeqsUpTo(ContentItems, MaxCustom),
        asset_id \in {Missing, PyStr("A9")},
        location_id \in {Missing, PyStr("L1")} }

ContentServices ==
    { [QuietService EXCEPT !.assets_ok = ok[1], !.assets_retry_ok = ok[2],
                           !.available_assets = list] :
        ok \in BOOLEAN \X BOOLEAN, list \in AvailableLists }

-----------------------------------------------------------------------------
(* Inputs of the reference lookup *)

\* a reference item of the form record
Reference(type, id, asset_id) ==
    [type |-> type, id |-> id, assetId |-> asset_id, name |-> Missing]

\* a relationship field whose definition is named name and whose related asset
\* is asset
RelationshipField(name, asset) == [name |-> PyStr(name), asset |-> PyStr(asset)]

ReferenceForms ==
    { [PlainForm(id) EXCEPT !.customValues = custom, !.assetId = asset_id,
                            !.relationships = fields, !.references = references,
                            !.relatedItems = related] :
        id \in {PyStr("F1"), Missing},
        custom \in SeqsUpTo({[NoItem EXCEPT !.itemLabel = PyStr("Notes"),
                                            !.textVal = PyStr("Pump P-1 [A1] leaking")]}, 1),
        asset_id \in {Missing, PyStr("A9")},
        fields \in {Missing,
                    PyList(<< RelationshipField("Related Asset", "A9"),
                              RelationshipField("Issue", "I1") >>)},
        references \in {Missing,
                        PyList(<< Reference(PyStr("asset"), PyStr("A9"), Missing),
                                  Reference(PyStr("issue"), PyStr("I1"), Missing) >>),
                        PyDict(<< <<"assets",
                                    PyList(<< Reference(Missing, Missing, PyStr("A7")) >>)>>,
                                  <<"issues",
                                    PyList(<< Reference(Missing, PyStr("I1"), Missing) >>)>> >>)},
        related \in {Missing,
                     PyList(<< Reference(Missing, Missing, PyStr("A9")) >>)} }

DetailedForms ==
    { None,
      [relationships |-> PyList(<< RelationshipField("Asset", "A9"),
                                   RelationshipField("Asset", "A7") >>),
       data |-> Missing],
      [relationships |-> Missing,
       data |-> PyDict(<< <<"name", PyStr("Inspection")>>,
                          <<"relatedAssets",
                            PyList(<< Reference(PyStr("asset"), PyStr("A7"), Missing) >>)>> >>)] }

\* what a relationship request answers: nothing, or a list of relationships
Answers ==
    { [ok |-> FALSE, alt_ok |-> FALSE, relationships |-> << >>],
      [ok |-> TRUE, alt_ok |-> FALSE, relationships |-> << >>],
      [ok |-> FALSE, alt_ok |-> TRUE,
       relationships |->
         Relationships(<< PyList(<< Entity("form", UrnPrefix \o "F1"),
                                    Entity("asset", "A9") >>),
                          PyList(<< Entity("asset", "A7"), Entity("form", "F1"),
                                    Entity("form", UrnPrefix \o "F1") >>) >>)] }

ReferenceServices ==
    { [QuietService EXCEPT !.project_id = project_id,
                           !.assets_ok = TRUE,
                           !.available_assets = [k \in 1..2 |-> AvailableAsset(k)],
                           !.assets_v2_ok = TRUE, !.assets_v2 = list,
                           !.detailed_form = detailed_form,
                           !.search_ok = search.ok, !.search_alt_ok = search.alt_ok,
                           !.search_relationships = search.relationships,
                           !.container_ok = container.ok,
                           !.container_alt_ok = container.alt_ok,
                           !.container_relationships = container.relationships] :
        project_id \in {"P1", "b.P1"},
        list \in {<< >>, <<AssetA9>>},
        detailed_form \in DetailedForms,
        search \in Answers, container \in Answers }

-----------------------------------------------------------------------------
(* Relationship handlers *)

\* find_relationships_for_form(form.get('id'), ...)
find_relationships_for_form ==
    /\ assets' = [by |-> "find_relationships_for_form",
                  list |-> FormRelationships(service, Get(form_data, "id"))]
    /\ UNCHANGED <<form_data, form_info, service>>
    /\ UNCHANGED export_vars

\* get_form_asset_relationships(form, ...)
get_form_asset_relationships ==
    /\ assets' = [by |-> "get_form_asset_relationships",
                  list |-> FormAssetRelationships(service, form_data)]
    /\ UNCHANGED <<form_data, form_info, service>>
    /\ UNCHANGED export_vars

NextRelationships ==
    \/ find_relationships_for_form
    \/ get_form_asset_relationships

\* the inputs: a relationship graph, a form to match by content, or a form
\* with references
InitRelationships ==
    /\ \/ form_data \in GraphForms /\ service \in GraphServices
       \/ form_data \in ContentForms /\ service \in ContentServices
       \/ form_data \in ReferenceForms /\ service \in ReferenceServices
    /\ form_info = NoAnswer
    /\ assets = NotAsked
    /\ NoExport

\* the relationship resolution of one form against the answers of the service
SpecRelationships == InitRelationships /\ [][NextRelationships]_vars

-----------------------------------------------------------------------------
(* Properties of the relationship-graph lookup, checked under SpecRelationships *)

Looked == assets.by = "find_relationships_for_form"

\* the relationship graph the search returned
TheGraph == IF service.relationships_ok THEN service.relationships ELSE << >>

\* the positions <<i, j>> of the entities of the graph
Endpoints ==
    UNION {{<<i, j>> : j \in 1..Len(EntitiesOf(TheGraph[i]))} : i \in 1..Len(TheGraph)}

EndpointAt(p) == EntitiesOf(TheGraph[p[1]])[p[2]]

\* every entity of the graph carries an identifier
GraphIdentified == \A p \in Endpoints : EndpointAt(p).id # Missing

\* the identifier with the lineage prefix stripped
Stripped(id) ==
    IF StartsWith(id, UrnPrefix) THEN SubSeq(id, Len(UrnPrefix) + 1, Len(id)) ELSE id

\* the identifier reduced to the text after its last ':' when it starts with
\* the lineage prefix
Reduced(id) ==
    IF StartsWith(id, UrnPrefix)
    THEN CHOOSE t \in {SubSeq(id, k, Len(id)) : k \in 1..Len(id) + 1} :
           /\ Positions(t, ":") = {}
           /\ SubSeq(id, Len(id) - Len(t), Len(id) - Len(t)) = ":"
    ELSE id

\* the asset-detail lookup returns a record for the identifier
DetailsKnown(id) ==
    /\ service.assets_v2_ok \/ service.assets_v2_alt_ok
    /\ \E k \in 1..Len(service.assets_v2) : service.assets_v2[k].id = PyStr(id)

\* the asset-typed endpoints of the edges that also have a form-typed endpoint
\* whose identifier, made bare by B, is the identifier of the form
AssetEndpoints(B(_)) ==
    {p \in Endpoints :
       /\ EndpointAt(p).type = PyStr("asset")
       /\ \E q \in Endpoints :
            /\ q[1] = p[1]
            /\ EndpointAt(q).type = PyStr("form")
            /\ PyStr(B(EndpointAt(q).id.s)) = form_data.id}

ResolvedIds == {assets.list[k].id : k \in 1..Len(assets.list)}

-----------------------------------------------------------------------------
(* Properties of the relationship resolution, checked under SpecRelationships *)

Resolved == assets.by = "get_form_asset_relationships"

TypesOf(entries) == {entries[k].type : k \in 1..Len(entries)}

ContentTypes == {"name_match", "description_match", "location_match"}

\* C8: the asset list of a form, from the resolution or from the graph lookup,
\* has at most one entry per asset id.
C8_OneEntryPerAsset ==
    assets.by # "none" =>
       \A i, j \in 1..Len(assets.list) :
          assets.list[i].id = assets.list[j].id => i = j

\* C9: a name, description or location match is in the result of a form only
\* if the reference lookup found nothing and no embedded reference was
\* extracted from the form.
C9_ContentMatchLast ==
    Resolved /\ TypesOf(assets.list) \cap ContentTypes # {} =>
       /\ get_form_references(service, form_data) = << >>
       /\ "embedded_reference"
            \notin TypesOf(check_form_for_embedded_relationships(form_data))

\* C10: the result of a form that carries an assetId has an entry for that
\* asset id, whatever the other strategies returned.
C10_MetadataReferenceAlways ==
    Resolved /\ Truthy(Get(form_data, "id")) /\ form_data.assetId # Missing =>
       \E k \in 1..Len(assets.list) : assets.list[k].id = form_data.assetId

-----------------------------------------------------------------------------
(* Project identifiers *)

\* text.replace(old, ''): every occurrence of old, found left to right, is
\* taken out
RECURSIVE Remove(_, _)
Remove(text, old) ==
    IF Len(text) < Len(old) THEN text
    ELSE IF SubSeq(text, 1, Len(old)) = old
    THEN Remove(SubSeq(text, Len(old) + 1, Len(text)), old)
    ELSE SubSeq(text, 1, 1) \o Remove(SubSeq(text, 2, Len(text)), old)

\* project_id[2:] if project_id.startswith('b.') else project_id
clean_project_id(project_id) ==
    IF StartsWith(project_id, "b.") THEN SubSeq(project_id, 3, Len(project_id))
    ELSE project_id

\* project_id.replace('b.', '') if project_id.startswith('b.') else project_id
CacheKey(project_id) ==
    IF StartsWith(project_id, "b.") THEN Remove(project_id, "b.") ELSE project_id

\* project_id.replace('b.', '')
ReplacedProjectId(project_id) == Remove(project_id, "b.")

-----------------------------------------------------------------------------
(* cache.db: three tables keyed by project id. A row is                      *)
(* [data, created_at, last_accessed]; time is counted in whole hours.        *)

CACHE_CLEANUP_DAYS == 30
CACHE_MAX_PROJECTS == 500

Put(table, key, row) ==
    [k \in DOMAIN table \cup {key} |-> IF k = key THEN row ELSE table[k]]

Without(table, keys) == [k \in DOMAIN table \ keys |-> table[k]]

\* CURRENT_TIMESTAMP: the time in UTC
CurrentTimestamp(clk) == clk.utc

\* datetime.now(): the local time of the host
Now(clk) == clk.utc + clk.utc_offset

Row(data, clk) ==
    [data |-> data, created_at |-> CurrentTimestamp(clk),
     last_accessed |-> CurrentTimestamp(clk)]

\* UPDATE .. SET last_accessed = CURRENT_TIMESTAMP WHERE project_id = key
Touch(table, key, clk) ==
    [table EXCEPT ![key].last_accessed = CurrentTimestamp(clk)]

\* json.dumps writes every key of a dictionary as a string
KeyText(k) ==
    CASE k.ty = "str" -> k
      [] k.ty = "int" -> PyStr(ToString(k.n))
      [] k.ty = "bool" -> PyStr(IF k.b THEN "true" ELSE "false")
      [] k.ty = "none" -> PyStr("null")

\* the pairs of a dictionary as json.loads reads them back: a key written
\* twice keeps its first place and its last value
RECURSIVE StringKeys(_, _)
StringKeys(pairs, acc) ==
    IF pairs = << >> THEN acc
    ELSE StringKeys(Tail(pairs), DictSet(acc, KeyText(Head(pairs)[1]), Head(pairs)[2]))

\* json.dumps(payload): the text of the payload. A forms answer is a record
\* and a relationship list a list, both written as they are; a location
\* lookup is a dictionary keyed by location id
json_dumps(payload) ==
    [json |-> IF "ty" \in DOMAIN payload /\ payload.ty = "dict"
              THEN PyDict(StringKeys(payload.d, << >>)) ELSE payload]

\* json.loads(text)
json_loads(text) == text.json

\* a text that json.loads raises on
UnreadableText == [json |-> Missing]
Readable(text) == text # UnreadableText

\* clear_cache_file: a new cache.db and an empty in-process map
clear_cache_file == [db |-> EmptyDb, memory |-> EmptyTable]

\* a variant of the size check that resets the file and keeps the in-process map
CheckCacheSizeKeepsMap(store) ==
    IF store.db.oversize THEN [db |-> EmptyDb, memory |-> store.memory] ELSE store

\* check_cache_size: a file over CACHE_SIZE_THRESHOLD is cleared
check_cache_size(store) == IF store.db.oversize THEN clear_cache_file ELSE store

\* datetime.now() - timedelta(days=CACHE_CLEANUP_DAYS)
CutoffDate(clk) == Now(clk) - CACHE_CLEANUP_DAYS * 24

\* DELETE FROM table WHERE last_accessed < cutoff_date
DeleteOld(table, cutoff_date) ==
    Without(table, {k \in DOMAIN table : table[k].last_accessed < cutoff_date})

\* DELETE .. WHERE project_id NOT IN (SELECT .. ORDER BY last_accessed DESC
\* LIMIT n): the least recently accessed rows go, rows accessed at the same
\* time in an order SQLite is free to choose
RECURSIVE KeepMostRecent(_, _)
KeepMostRecent(table, n) ==
    IF Cardinality(DOMAIN table) <= n THEN {table}
    ELSE LET oldest == {k \in DOMAIN table :
                          \A j \in DOMAIN table :
                             table[k].last_accessed <= table[j].last_accessed}
         IN  UNION {KeepMostRecent(Without(table, {k}), n) : k \in oldest}

\* a variant of the eviction that deletes by age only
CleanupByAgeOnly(db, clk) ==
    { [db EXCEPT !.location_cache = DeleteOld(db.location_cache, CutoffDate(clk)),
                 !.forms_cache = DeleteOld(db.forms_cache, CutoffDate(clk)),
                 !.relationships_cache = DeleteOld(db.relationships_cache, CutoffDate(clk))] }

\* cleanup_old_cache_entries: what it can leave of the three tables
cleanup_old_cache_entries(db, clk) ==
    IF db.unavailable THEN {db}
    ELSE
    { [db EXCEPT !.location_cache = l, !.forms_cache = f, !.relationships_cache = r] :
        l \in KeepMostRecent(DeleteOld(db.location_cache, CutoffDate(clk)), CACHE_MAX_PROJECTS),
        f \in KeepMostRecent(DeleteOld(db.forms_cache, CutoffDate(clk)), CACHE_MAX_PROJECTS),
        r \in KeepMostRecent(DeleteOld(db.relationships_cache, CutoffDate(clk)),
                             CACHE_MAX_PROJECTS) }

\* check_cache_size() followed by cleanup_old_cache_entries(), on the file
\* and the in-process map
EvictionPass(store, clk) ==
    LET checked == check_cache_size(store)
    IN  {[checked EXCEPT !.db = db] : db \in cleanup_old_cache_entries(checked.db, clk)}

-----------------------------------------------------------------------------
(* Reads through the cache. A store is the file and the in-process map:      *)
(* [db, memory]; a read answers [store, value, source, searches].            *)

\* d.get(k, default) on a dictionary held as a sequence of pairs
DictGet(d, k, default) ==
    IF \E i \in 1..Len(d) : d[i][1] = k
    THEN d[CHOOSE i \in 1..Len(d) : d[i][1] = k][2]
    ELSE default

\* the lookup dictionary built from the nodes of the location tree: a node
\* without id is left out
RECURSIVE LocationLookup(_, _)
LocationLookup(locations, acc) ==
    IF locations = << >> THEN acc
    ELSE LET location == Head(locations)
             location_id == Get(location, "id")
             entry == [name |-> GetOr(location, "name", PyStr("Unknown Location")),
                       id |-> location_id,
                       description |-> GetOr(location, "description", PyStr("")),
                       parentId |-> GetOr(location, "parentId", PyStr("")),
                       type |-> GetOr(location, "type", PyStr("")),
                       barcode |-> GetOr(location, "barcode", PyStr(""))]
         IN  LocationLookup(Tail(locations),
                            IF Truthy(location_id) THEN DictSet(acc, location_id, entry)
                            ELSE acc)

\* what a statement that writes leaves of the file: nothing changes when the
\* statement raises
Written(db, written) == IF db.unavailable THEN db ELSE written

\* get_all_locations_for_project after its eviction pass: the in-process
\* map, then the table, then the location tree of the service. The row that
\* is found is touched before its payload is parsed; when a statement or the
\* parsing raises, the locations are fetched
ReadLocations(store, clk, svc, project_id) ==
    LET key == CacheKey(project_id)
        table == store.db.location_cache
        cached == json_loads(table[key].data)
        fetched == PyDict(LocationLookup(svc.locations, << >>))
        found == ~store.db.unavailable /\ key \in DOMAIN table
        touched == IF found THEN [store.db EXCEPT !.location_cache = Touch(table, key, clk)]
                   ELSE store.db
    IN  IF key \in DOMAIN store.memory
        THEN [store |-> store, value |-> store.memory[key], source |-> "memory",
              searches |-> 0]
        ELSE IF found /\ Readable(table[key].data)
        THEN [store |-> [db |-> touched, memory |-> Put(store.memory, key, cached)],
              value |-> cached, source |-> "table", searches |-> 0]
        ELSE IF svc.locations_ok
        THEN [store |-> [db |-> Written(touched,
                                        [touched EXCEPT !.location_cache =
                                           Put(table, key, Row(json_dumps(fetched), clk))]),
                         memory |-> Put(store.memory, key, fetched)],
              value |-> fetched, source |-> "fetch", searches |-> 0]
        ELSE [store |-> [store EXCEPT !.db = touched], value |-> PyDict(<< >>),
              source |-> "none", searches |-> 0]

\* a variant of the location read whose eviction pass also drops the entries
\* of the in-process map that have no row left
LocationsOfRowsOnly(store, clk, svc, project_id) ==
    {ReadLocations([evicted EXCEPT !.memory =
                      Without(@, DOMAIN @ \ DOMAIN evicted.db.location_cache)],
                   clk, svc, project_id) :
       evicted \in EvictionPass(store, clk)}

\* get_all_locations_for_project(project_id, headers): every answer it can give
get_all_locations_for_project(store, clk, svc, project_id) ==
    {ReadLocations(evicted, clk, svc, project_id) : evicted \in EvictionPass(store, clk)}

\* search_project_relationships(project_id, headers) as a list value
SearchedRelationships(svc) == PyList(search_project_relationships(svc))

\* get_all_relationships_for_project after its eviction pass: the table,
\* then one relationship search whose answer is stored. The payload of the
\* row is parsed before the row is touched
ReadRelationships(store, clk, svc, project_id) ==
    LET key == CacheKey(project_id)
        table == store.db.relationships_cache
        relationships_data == SearchedRelationships(svc)
    IN  IF ~store.db.unavailable /\ key \in DOMAIN table /\ Readable(table[key].data)
        THEN [store |-> [store EXCEPT !.db.relationships_cache = Touch(table, key, clk)],
              value |-> json_loads(table[key].data), source |-> "table", searches |-> 0]
        ELSE [store |-> [store EXCEPT !.db =
                           Written(store.db,
                                   [store.db EXCEPT !.relationships_cache =
                                      Put(table, key,
                                          Row(json_dumps(relationships_data), clk))])],
              value |-> relationships_data, source |-> "fetch", searches |-> 1]

\* get_all_relationships_for_project(project_id, headers): every answer it can give
get_all_relationships_for_project(store, clk, svc, project_id) ==
    {ReadRelationships(evicted, clk, svc, project_id) : evicted \in EvictionPass(store, clk)}

\* bool(cached_forms_data): a JSON object without keys is falsy
TruthyObject(object) == \E key \in DOMAIN object : object[key] # Missing

\* a variant of the forms read that takes the row of a file whose statements
\* raise
ReadFormsOfBrokenFile(store, clk, svc, key) ==
    LET table == store.db.forms_cache
        hit == key \in DOMAIN table /\ Readable(table[key].data)
        cached == json_loads(table[key].data)
        touched == IF hit THEN [store EXCEPT !.db.forms_cache = Touch(table, key, clk)]
                   ELSE store
    IN  IF hit /\ TruthyObject(cached)
        THEN [store |-> touched, value |-> cached, source |-> "table", failed |-> FALSE]
        ELSE IF ~svc.forms_ok
        THEN [store |-> touched, value |-> None, source |-> "none", failed |-> TRUE]
        ELSE [store |-> [touched EXCEPT !.db.forms_cache =
                           Put(touched.db.forms_cache, key,
                               Row(json_dumps(svc.forms_data), clk))],
              value |-> svc.forms_data, source |-> "fetch", failed |-> FALSE]

\* steps 1 and 2 of get_form_exporter_data: the forms of the project from
\* the table, else from the service (stored when fetched); failed when the
\* service does not answer
ReadForms(store, clk, svc, key) ==
    LET table == store.db.forms_cache
        hit == /\ ~store.db.unavailable
               /\ key \in DOMAIN table
               /\ Readable(table[key].data)
        cached == json_loads(table[key].data)
        touched == IF hit THEN [store EXCEPT !.db.forms_cache = Touch(table, key, clk)]
                   ELSE store
    IN  IF hit /\ TruthyObject(cached)
        THEN [store |-> touched, value |-> cached, source |-> "table", failed |-> FALSE]
        ELSE IF ~svc.forms_ok
        THEN [store |-> touched, value |-> None, source |-> "none", failed |-> TRUE]
        ELSE [store |-> [touched EXCEPT !.db =
                           Written(touched.db,
                                   [touched.db EXCEPT !.forms_cache =
                                      Put(touched.db.forms_cache, key,
                                          Row(json_dumps(svc.forms_data), clk))])],
              value |-> svc.forms_data, source |-> "fetch", failed |-> FALSE]

-----------------------------------------------------------------------------
(* The batch export get_form_exporter_data. A request is served by a worker  *)
(* thread; between the steps below the thread waits for the network or       *)
(* sleeps, and other threads run.                                            *)

\* round(num / den): Python rounds a half to the even neighbour
Round(num, den) ==
    LET q == num \div den
        r == num % den
    IN  IF 2 * r < den THEN q
        ELSE IF 2 * r > den THEN q + 1
        ELSE IF q % 2 = 0 THEN q ELSE q + 1

\* the record written when the request is accepted
StartingProgress(key) ==
    [percentage |-> 0, message |-> "Starting form processing...", current |-> 0,
     total |-> 0, project_id |-> PyStr(key)]

\* a variant that counts the form at hand as processed
FormProgressCountsForm(i, all_forms, key) ==
    [percentage |-> Round(100 * (i + 1), Len(all_forms)),
     message |-> "Processing form " \o ToString(i + 1) \o " of "
                 \o ToString(Len(all_forms)) \o ": "
                 \o Format(GetOr(all_forms[i + 1], "name", PyStr("Unknown Form"))),
     current |-> i + 1, total |-> Len(all_forms), project_id |-> PyStr(key)]

\* the record written at form i (counted from 0) of all_forms
FormProgress(i, all_forms, key) ==
    [percentage |-> Round(100 * i, Len(all_forms)),
     message |-> "Processing form " \o ToString(i + 1) \o " of "
                 \o ToString(Len(all_forms)) \o ": "
                 \o Format(GetOr(all_forms[i + 1], "name", PyStr("Unknown Form"))),
     current |-> i + 1, total |-> Len(all_forms), project_id |-> PyStr(key)]

\* the record written after the last form
CompleteProgress(all_forms, forms_with_relationships, key) ==
    [percentage |-> 100,
     message |-> "Processing Complete - Found "
                 \o ToString(Len(forms_with_relationships)) \o " forms with relationships",
     current |-> Len(all_forms), total |-> Len(all_forms), project_id |-> PyStr(key)]

\* the location name of an asset after the enhancement loop
LocationName(location_lookup, location_id) ==
    IF Truthy(location_id)
    THEN IF \E i \in 1..Len(location_lookup.d) : location_lookup.d[i][1] = location_id
         THEN DictGet(location_lookup.d, location_id, None).name
         ELSE PyStr("Location " \o Format(location_id))
    ELSE PyStr("N/A")

\* an entry of related_assets; the assets of the model carry no barcode, which
\* get_asset_details reports as 'N/A'
RelatedAsset(entry, location_lookup) ==
    [id |-> entry.id, name |-> entry.name, description |-> entry.description,
     clientAssetId |-> entry.clientAssetId, locationId |-> entry.locationId,
     locationName |-> LocationName(location_lookup, entry.locationId),
     barcode |-> PyStr("N/A"), type |-> entry.type,
     relationship_id |-> entry.relationship_id]

\* the related assets of one form, from the relationships fetched once
RelatedAssets(svc, form_id, all_relationships, location_lookup) ==
    LET entries == ScanRelationships(svc, form_id, all_relationships)
    IN  [k \in 1..Len(entries) |-> RelatedAsset(entries[k], location_lookup)]

\* the record appended for a form
FormRecord(form, related_assets) ==
    [form_id |-> Get(form, "id"),
     form_name |-> GetOr(form, "name", PyStr("Unknown Form")),
     form_date |-> GetOr(form, "formDate", PyStr("")),
     form_created |-> GetOr(form, "createdAt", PyStr("")),
     relationship_id |-> Get(form, "relationship_id"),
     related_assets |-> related_assets]

\* total_assets: the related assets of all records, summed by halves of the list
RECURSIVE TotalAssets(_)
TotalAssets(records) ==
    IF records = << >> THEN 0
    ELSE IF Len(records) = 1 THEN Len(records[1].related_assets)
    ELSE LET half == Len(records) \div 2
         IN  TotalAssets(SubSeq(records, 1, half))
               + TotalAssets(SubSeq(records, half + 1, Len(records)))

NoResponse == [status |-> 0, forms |-> << >>, total_forms |-> 0, total_assets |-> 0]
Failure(status) == [NoResponse EXCEPT !.status = status]
Success(all_forms, records) ==
    [status |-> 200, forms |-> records, total_forms |-> Len(all_forms),
     total_assets |-> TotalAssets(records)]

\* cached_forms_data.get('data', [])
AllForms(cached_forms_data) ==
    IF cached_forms_data.data = Missing THEN << >> ELSE cached_forms_data.data.l

\* a request for project_id that a worker thread has received
Request(project_id, authenticated) ==
    [pc |-> "received", project_id |-> project_id, authenticated |-> authenticated,
     clean_project_id |-> "", all_forms |-> << >>, location_lookup |-> PyDict(<< >>),
     all_relationships |-> << >>, i |-> 0, forms_with_relationships |-> << >>,
     searches |-> 0, written |-> << >>, response |-> NoResponse]

Store == [db |-> cache_db, memory |-> location_cache]

\* what a read of a table answered, as kept in lookup: the project id of the
\* request, the key it was turned into, the value and where it came from
\* ("memory", "table", "fetch" or "none"), whether the value was stored, and
\* the time of the read
ReadRecord(project_id, key, value, source, stored) ==
    [project_id |-> project_id, key |-> key, value |-> value,
     source |-> source, stored |-> stored, at |-> clock.utc]

\* the record of a read that stores what it fetches
AnswerOf(read, project_id, key) ==
    ReadRecord(project_id, key, read.value, read.source,
               read.source = "fetch" /\ ~read.store.db.unavailable)

\* get_form_exporter_data up to the loop over the forms: the session check,
\* the starting progress record, the eviction pass, the forms of the project
\* (steps 1 and 2), its locations (step 3) and its relationships (step 4).
\* written lists the records the thread has assigned to current_progress
get_form_exporter_data(t) ==
    /\ batch[t].pc = "received"
    /\ LET key == clean_project_id(batch[t].project_id)
       IN  IF ~batch[t].authenticated
           THEN /\ batch' = [batch EXCEPT ![t].pc = "done", ![t].response = Failure(401)]
                /\ lookup' = NoLookup
                /\ UNCHANGED <<current_progress, cache_db, location_cache>>
           ELSE /\ current_progress' = StartingProgress(key)
                /\ \E evicted \in EvictionPass(Store, clock) :
                      LET forms == ReadForms(evicted, clock, service, key)
                      IN  IF forms.failed
                          THEN /\ cache_db' = forms.store.db
                               /\ location_cache' = forms.store.memory
                               /\ lookup' = [NoLookup EXCEPT
                                    !.forms_cache = AnswerOf(forms, batch[t].project_id, key)]
                               /\ batch' = [batch EXCEPT
                                    ![t].pc = "done",
                                    ![t].clean_project_id = key,
                                    ![t].written = <<StartingProgress(key)>>,
                                    ![t].response = Failure(500)]
                          ELSE \E locations \in get_all_locations_for_project(
                                                    forms.store, clock, service, key) :
                                 /\ cache_db' = locations.store.db
                                 /\ location_cache' = locations.store.memory
                                 /\ lookup' = [NoLookup EXCEPT
                                      !.forms_cache = AnswerOf(forms, batch[t].project_id, key),
                                      !.location_cache =
                                         AnswerOf(locations, batch[t].project_id,
                                                  CacheKey(key))]
                                 /\ batch' = [batch EXCEPT
                                      ![t].pc = "forms",
                                      ![t].clean_project_id = key,
                                      ![t].all_forms = AllForms(forms.value),
                                      ![t].location_lookup = locations.value,
                                      ![t].all_relationships =
                                         search_project_relationships(service),
                                      ![t].searches = 1,
                                      ![t].written = <<StartingProgress(key)>>]
    /\ UNCHANGED <<form_data, form_info, service, assets, clock, polled>>

\* one turn of the loop over the forms: the progress record at every fifth
\* form, then the related assets of the form; an entity without id ends the
\* request with the answer of the outer except clause, and so does, before
\* the progress record, an entry of the list that is null (form.get raises)
process_form(t) ==
    /\ batch[t].pc = "forms"
    /\ batch[t].i < Len(batch[t].all_forms)
    /\ LET i == batch[t].i
           form == batch[t].all_forms[i + 1]
           progress == FormProgress(i, batch[t].all_forms, batch[t].clean_project_id)
           written == IF i % 5 = 0 THEN Append(batch[t].written, progress)
                      ELSE batch[t].written
       IN  IF form = None
           THEN /\ current_progress' = current_progress
                /\ batch' = [batch EXCEPT ![t].pc = "done", ![t].response = Failure(500)]
           ELSE /\ current_progress' = IF i % 5 = 0 THEN progress ELSE current_progress
                /\ IF ScanRaises(batch[t].all_relationships)
                   THEN batch' = [batch EXCEPT ![t].pc = "done", ![t].written = written,
                                               ![t].response = Failure(500)]
                   ELSE batch' = [batch EXCEPT
                          ![t].i = i + 1,
                          ![t].written = written,
                          ![t].forms_with_relationships =
                             Append(@, FormRecord(form,
                                         RelatedAssets(service, Get(form, "id"),
                                                       batch[t].all_relationships,
                                                       batch[t].location_lookup)))]
    /\ lookup' = NoLookup
    /\ UNCHANGED <<form_data, form_info, service, assets, cache_db, location_cache,
                   clock, polled>>

\* after the last form: the progress record of completion and the answer
complete_batch(t) ==
    /\ batch[t].pc = "forms"
    /\ batch[t].i = Len(batch[t].all_forms)
    /\ LET progress == CompleteProgress(batch[t].all_forms,
                                        batch[t].forms_with_relationships,
                                        batch[t].clean_project_id)
       IN  /\ current_progress' = progress
           /\ batch' = [batch EXCEPT
                ![t].pc = "done",
                ![t].written = Append(@, progress),
                ![t].response = Success(batch[t].all_forms,
                                        batch[t].forms_with_relationships)]
    /\ lookup' = NoLookup
    /\ UNCHANGED <<form_data, form_info, service, assets, cache_db, location_cache,
                   clock, polled>>

\* the answer of get_progress when the progress record is not that of the
\* project asked for
NoProgress == [percentage |-> 0, message |-> "No progress available"]

\* a variant that takes the progress record of any project
ProgressOfAnyProject(progress, project_id) == progress.project_id # None

\* current_progress['project_id'] == clean_project_id
ProgressOfProject(progress, project_id) ==
    progress.project_id = PyStr(clean_project_id(project_id))

\* get_progress(project_id) up to its comparison: the answer of no progress,
\* or the decision to answer with the progress record
get_progress(project_id) ==
    /\ ~polled.pending
    /\ polled' = IF ProgressOfProject(current_progress, project_id)
                 THEN [project_id |-> project_id, answer |-> None, pending |-> TRUE]
                 ELSE [project_id |-> project_id, answer |-> NoProgress, pending |-> FALSE]
    /\ lookup' = NoLookup
    /\ UNCHANGED <<form_data, form_info, service, assets, current_progress,
                   location_cache, cache_db, clock, batch>>

\* return jsonify(current_progress): the global is read again, after the
\* prints that follow the comparison
return_progress ==
    /\ polled.pending
    /\ polled' = [polled EXCEPT !.answer = current_progress, !.pending = FALSE]
    /\ lookup' = NoLookup
    /\ UNCHANGED <<form_data, form_info, service, assets, current_progress,
                   location_cache, cache_db, clock, batch>>
-----------------------------------------------------------------------------
(* Inputs of the batch export *)

MaxForms == 12
MaxFew == 2

\* form k of a project as the forms list carries it; every third form has
\* no name
BatchForm(k) ==
    [id |-> PyStr("F" \o ToString(k)),
     name |-> IF k % 3 = 0 THEN Missing ELSE PyStr("Form " \o ToString(k)),
     formDate |-> PyStr("2024-05-0" \o ToString(k % 10)),
     createdAt |-> Missing,
     relationship_id |-> Missing]

FormsList(n) == [k \in 1..n |-> BatchForm(k)]

\* the answer of the forms list request
FormsData(forms) == [data |-> PyList(forms), pagination |-> PyInt(Len(forms))]

\* the nodes of the location tree
LocationL1 ==
    [id |-> PyStr("L1"), name |-> PyStr("Plant room"), description |-> Missing,
     parentId |-> Missing, type |-> PyStr("Area"), barcode |-> Missing]

\* a service with a forms list and a location tree next to what svc answers
ExportService(svc, forms_ok, forms, locations_ok, locations) ==
    [forms_ok |-> forms_ok, forms_data |-> FormsData(forms),
     locations_ok |-> locations_ok, locations |-> locations] @@ svc

\* the relationships of the project: edges of form F1 and form F2, an edge
\* with an entity without id, an edge without entities
BatchGraphs ==
    { << >>,
      Relationships(<< PyList(<< Entity("form", "F1"), Entity("asset", "A9") >>) >>),
      Relationships(<< PyList(<< Entity("asset", "A7"), Entity("form", "F2") >>),
                       PyList(<< Entity("form", UrnPrefix \o "F1"),
                                 Entity("asset", UrnPrefix \o "A9") >>) >>),
      Relationships(<< PyList(<< Entity("form", "F1"), Entity("asset", "A9") >>),
                       Missing >>),
      Relationships(<< PyList(<< Entity("form", "F1"),
                                 [Entity("asset", "A9") EXCEPT !.id = Missing] >>) >>) }

\* the project answers every request, without relationships
AnsweringService(n) ==
    ExportService([QuietService EXCEPT !.relationships_ok = TRUE, !.assets_v2_ok = TRUE,
                                       !.assets_v2 = <<AssetA9, AssetA7>>],
                  TRUE, FormsList(n), TRUE, <<LocationL1>>)

\* some requests fail, some answers are malformed
FailingServices ==
    { ExportService([QuietService EXCEPT !.relationships_ok = search_ok,
                                         !.relationships = graph,
                                         !.assets_v2_ok = assets_ok,
                                         !.assets_v2 = <<AssetA9, AssetA7>>],
                    forms_ok, FormsList(n), locations_ok, <<LocationL1>>) :
        search_ok \in BOOLEAN, graph \in BatchGraphs, assets_ok \in BOOLEAN,
        forms_ok \in BOOLEAN, n \in 0..MaxFew, locations_ok \in BOOLEAN }

\* cache.db of an earlier run that holds the relationships of project P1
EarlierRelationships ==
    [EmptyDb EXCEPT !.relationships_cache =
        Put(EmptyTable, "P1", [data |-> json_dumps(PyList(<< >>)), created_at |-> -1,
                               last_accessed |-> -1])]

Worker == "worker-1"
OtherWorker == "worker-2"

\* one request, served alone
InitBatch ==
    /\ form_data = PlainForm(PyStr("F1"))
    /\ form_info = NoAnswer
    /\ assets = NotAsked
    /\ current_progress = InitialProgress
    /\ location_cache = EmptyTable
    /\ clock = [utc |-> 0, utc_offset |-> 0]
    /\ polled = NotPolled
    /\ lookup = NoLookup
    /\ \/ /\ service \in {AnsweringService(n) : n \in 0..MaxForms}
          /\ cache_db = EmptyDb
          /\ batch \in {[t \in {Worker} |-> Request(project_id, TRUE)] :
                          project_id \in {"P1", "b.P1"}}
       \/ /\ service \in FailingServices
          /\ cache_db \in {EmptyDb, EarlierRelationships}
          /\ batch \in {[t \in {Worker} |-> Request("b.P1", authenticated)] :
                          authenticated \in BOOLEAN}

NextBatch ==
    \/ get_form_exporter_data(Worker)
    \/ process_form(Worker)
    \/ complete_batch(Worker)

SpecBatch == InitBatch /\ [][NextBatch]_vars
-----------------------------------------------------------------------------
(* Properties of the batch export, checked under SpecBatch *)

Done(t) == batch[t].pc = "done"

\* the forms list the request worked on was obtained
FormsListObtained(t) == batch[t].authenticated /\ service.forms_ok

\* C11: a request of an authenticated session that obtained the forms list
\* answers with success and with one record for every form of the list,
\* whatever the asset-detail, location and relationship-search requests
\* answer, an edge whose entity has no id or that has no entities included
C11_OnlyFormsListAndSessionFail ==
    \A t \in DOMAIN batch :
       (Done(t) /\ FormsListObtained(t))
          => /\ batch[t].response.status = 200
             /\ Len(batch[t].response.forms) = Len(AllForms(service.forms_data))

\* C12: a request that worked on the forms list f_0 .. f_(n-1) answers with
\* exactly n records, the i-th being the record of f_i, forms without related
\* asset included
C12_OneRecordPerFormInOrder ==
    \A t \in DOMAIN batch :
       (Done(t) /\ FormsListObtained(t))
          => LET forms == AllForms(service.forms_data)
                 records == batch[t].response.forms
             IN  /\ Len(records) = Len(forms)
                 /\ \A k \in 1..Len(forms) :
                       /\ records[k].form_id = Get(forms[k], "id")
                       /\ records[k].form_name = GetOr(forms[k], "name", PyStr("Unknown Form"))

Completed(t) == Done(t) /\ batch[t].response.status = 200

\* p is num / den rounded to the nearest integer, a half to the even one
IsRounded(p, num, den) ==
    LET twice == IF num >= p * den THEN 2 * (num - p * den) ELSE 2 * (p * den - num)
    IN  /\ twice <= den
        /\ twice = den => p % 2 = 0

\* the form indices at which the loop writes the progress record
UpdateIndices(n) == {i \in 0..(n - 1) : i % 5 = 0}

Percentages(records) == [k \in 1..Len(records) |-> records[k].percentage]

C20_GraphThroughTheCache ==
    \A t \in DOMAIN batch :
       Completed(t)
          => LET key == batch[t].clean_project_id
                 table == cache_db.relationships_cache
             IN  /\ batch[t].searches <= 1
                 /\ key \in DOMAIN table
                 /\ json_loads(table[key].data) = PyList(batch[t].all_relationships)
                 /\ table[key].created_at < clock.utc => batch[t].searches = 0
-----------------------------------------------------------------------------
(* Properties of the cache, checked under SpecCache *)

\* this step reads table
Reads(table) == lookup'[table] # lookup[table] /\ lookup'[table] # NoRead

\* two reads were asked for the same project, under either spelling
SameProject(read, other) ==
    /\ read # NoRead
    /\ other # NoRead
    /\ clean_project_id(read.project_id) = clean_project_id(other.project_id)

\* C16: a read of a table that follows at once on a read that stored a
\* payload for the same project, under either spelling of its id, answers
\* the stored payload
C16_RoundTrip ==
    [][\A table \in Tables :
          (/\ lookup[table].stored
           /\ Reads(table)
           /\ SameProject(lookup[table], lookup'[table])
           /\ lookup'[table].at = lookup[table].at)
             => lookup'[table].value = lookup[table].value]_vars

\* C18: every read that a table or the in-process map answers, and every
\* read that stores what it fetched, leaves the row of the project with
\* last_accessed at the time of the read
C18_ReadRefreshesLastAccessed ==
    [][\A table \in Tables :
          (/\ Reads(table)
           /\ lookup'[table].source \in {"memory", "table"} \/ lookup'[table].stored)
             => /\ lookup'[table].key \in DOMAIN cache_db'[table]
                /\ cache_db'[table][lookup'[table].key].last_accessed
                     = CurrentTimestamp(clock)]_vars

\* C19: two reads of a table that follow one another and are asked for the
\* same project, under either spelling of its id and on any path, use the
\* same key
C19_OneKeyPerProject ==
    [][\A table \in Tables :
          (Reads(table) /\ SameProject(lookup[table], lookup'[table]))
             => lookup'[table].key = lookup[table].key]_vars
-----------------------------------------------------------------------------
(* The handlers and functions that read and write cache.db, the passing of   *)
(* time and the changes of the project in the service                        *)

\* the retention window in hours
RetentionHours == CACHE_CLEANUP_DAYS * 24

\* time passes in steps of a little more than half the retention window
TickHours == RetentionHours \div 2 + 1

MaxTicks == 1

Tick ==
    /\ clock.utc < MaxTicks * TickHours
    /\ clock' = [clock EXCEPT !.utc = @ + TickHours]
    /\ UNCHANGED <<form_data, form_info, service, assets, current_progress,
                   location_cache, cache_db, batch, polled, lookup>>

\* the two spellings of a project id with 'b.' inside
CacheProjectIds == {"P1b.x", "b.P1b.x"}

\* the project with one form that is related to asset A9 at location L1
LinkedService ==
    [AnsweringService(1) EXCEPT
       !.relationships =
          Relationships(<< PyList(<< Entity("form", "F1"), Entity("asset", "A9") >>) >>)]

\* the same project later: a second form, a renamed location, a second edge
ChangedService ==
    [AnsweringService(2) EXCEPT
       !.locations = << [LocationL1 EXCEPT !.name = PyStr("Boiler room")] >>,
       !.relationships =
          Relationships(<< PyList(<< Entity("form", "F1"), Entity("asset", "A9") >>),
                           PyList(<< Entity("form", "F2"), Entity("asset", "A9") >>) >>)]

CacheServices == {LinkedService, ChangedService}

\* the project changes in the service
DataChanges ==
    /\ service' \in CacheServices \ {service}
    /\ UNCHANGED <<form_data, form_info, assets, current_progress, location_cache,
                   cache_db, clock, batch, polled, lookup>>

\* a request for project_id arrives at a worker thread that serves none
receive_request(t, project_id) ==
    /\ batch[t].pc \in {"received", "done"}
    /\ batch[t].project_id # project_id \/ batch[t].pc = "done"
    /\ batch' = [batch EXCEPT ![t] = Request(project_id, TRUE)]
    /\ lookup' = NoLookup
    /\ UNCHANGED <<form_data, form_info, service, assets, current_progress,
                   location_cache, cache_db, clock, polled>>

\* the forms of the project as the progress stream takes them: the row of
\* the forms table is read and left as it is, the answer of the service is
\* not stored
StreamForms(db, svc, key) ==
    LET table == db.forms_cache
        cached == json_loads(table[key].data)
    IN  IF /\ ~db.unavailable
           /\ key \in DOMAIN table
           /\ Readable(table[key].data)
           /\ TruthyObject(cached)
        THEN [value |-> cached, source |-> "table"]
        ELSE IF svc.forms_ok
        THEN [value |-> svc.forms_data, source |-> "fetch"]
        ELSE [value |-> None, source |-> "none"]

\* get_form_exporter_progress(project_id) with an authenticated session, read
\* to its end: the forms, then the locations of the project
get_form_exporter_progress(project_id) ==
    /\ LET key == clean_project_id(project_id)
           forms == StreamForms(cache_db, service, key)
           forms_read == ReadRecord(project_id, key, forms.value, forms.source, FALSE)
       IN  IF forms.source = "none"
           THEN /\ lookup' = [NoLookup EXCEPT !.forms_cache = forms_read]
                /\ UNCHANGED <<cache_db, location_cache>>
           ELSE \E locations \in get_all_locations_for_project(Store, clock, service, key) :
                   /\ cache_db' = locations.store.db
                   /\ location_cache' = locations.store.memory
                   /\ lookup' = [NoLookup EXCEPT
                        !.forms_cache = forms_read,
                        !.location_cache = AnswerOf(locations, project_id, CacheKey(key))]
    /\ UNCHANGED <<form_data, form_info, service, assets, current_progress, clock,
                   batch, polled>>

\* find_relationships_for_form asks for the location of an asset: some asset
\* entity that the loop reaches before it raises has details with a location id
AsksLocation(svc) ==
    LET all_relationships == search_project_relationships(svc)
        Reached(i, j) ==
            /\ \A h \in 1..(i - 1) :
                  \A k \in 1..Len(EntitiesOf(all_relationships[h])) :
                     ~CleanRaises(EntitiesOf(all_relationships[h])[k])
            /\ \A k \in 1..j : ~CleanRaises(EntitiesOf(all_relationships[i])[k])
    IN  \E i \in 1..Len(all_relationships) :
           \E j \in 1..Len(EntitiesOf(all_relationships[i])) :
              LET entity == EntitiesOf(all_relationships[i])[j]
                  asset_details == get_asset_details(svc, CleanEntityId(entity))
              IN  /\ Reached(i, j)
                  /\ Get(entity, "type") = PyStr("asset")
                  /\ asset_details # None
                  /\ Truthy(asset_details.locationId)
                  /\ asset_details.locationId # PyStr("N/A")

\* get_project_forms_with_relationships(project_id) with an authenticated
\* session, as far as the cache goes: the forms come from the service, and
\* every form asks find_relationships_for_form, which reads the locations of
\* the project under project_id.replace('b.', '')
get_project_forms_with_relationships(project_id) ==
    /\ service.forms_ok
    /\ AllForms(service.forms_data) # << >>
    /\ AsksLocation(service)
    /\ LET key == ReplacedProjectId(project_id)
       IN  \E locations \in get_all_locations_for_project(Store, clock, service, key) :
              /\ cache_db' = locations.store.db
              /\ location_cache' = locations.store.memory
              /\ lookup' = [NoLookup EXCEPT
                   !.location_cache = AnswerOf(locations, project_id, CacheKey(key))]
    /\ UNCHANGED <<form_data, form_info, service, assets, current_progress, clock,
                   batch, polled>>

\* a call of get_all_relationships_for_project(project_id, headers); no
\* handler of the program calls it
call_get_all_relationships_for_project(project_id) ==
    /\ \E relationships \in
            get_all_relationships_for_project(Store, clock, service, project_id) :
          /\ cache_db' = relationships.store.db
          /\ location_cache' = relationships.store.memory
          /\ lookup' = [NoLookup EXCEPT
               !.relationships_cache =
                  AnswerOf(relationships, project_id, CacheKey(project_id))]
    /\ UNCHANGED <<form_data, form_info, service, assets, current_progress, clock,
                   batch, polled>>

\* cache.db of an earlier run of the program: the rows of a project, last
\* accessed age hours before the start; the in-process map starts empty
EarlierRow(payload, age) ==
    [data |-> json_dumps(payload), created_at |-> 0 - age, last_accessed |-> 0 - age]

EarlierDb(key, age) ==
    [EmptyDb EXCEPT
       !.location_cache =
          Put(EmptyTable, key,
              EarlierRow(PyDict(LocationLookup(LinkedService.locations, << >>)), age)),
       !.forms_cache = Put(EmptyTable, key, EarlierRow(LinkedService.forms_data, age)),
       !.relationships_cache =
          Put(EmptyTable, key, EarlierRow(SearchedRelationships(LinkedService), age))]

InitCache ==
    /\ form_data = PlainForm(PyStr("F1"))
    /\ form_info = NoAnswer
    /\ assets = NotAsked
    /\ current_progress = InitialProgress
    /\ location_cache = EmptyTable
    /\ cache_db \in {EmptyDb, EarlierDb("P1b.x", 1)}
    /\ clock = [utc |-> 0, utc_offset |-> 0]
    /\ polled = NotPolled
    /\ lookup = NoLookup
    /\ service = LinkedService
    /\ batch \in {[t \in {Worker} |-> Request(project_id, TRUE)] :
                    project_id \in CacheProjectIds}

NextCache ==
    \/ \E project_id \in CacheProjectIds : receive_request(Worker, project_id)
    \/ get_form_exporter_data(Worker)
    \/ process_form(Worker)
    \/ complete_batch(Worker)
    \/ \E project_id \in CacheProjectIds : get_form_exporter_progress(project_id)
    \/ \E project_id \in CacheProjectIds : get_project_forms_with_relationships(project_id)
    \/ Tick
    \/ DataChanges

SpecCache == InitCache /\ [][NextCache]_vars
-----------------------------------------------------------------------------
(* The eviction pass on the cache files that a run of the program can leave  *)

\* the host clock is up to MaxSkew hours behind or ahead of UTC
MaxSkew == 1

\* a table can hold up to MaxExcess rows more than CACHE_MAX_PROJECTS: a read
\* evicts before it stores its row
MaxExcess == 1

\* the rows of n projects, project k last accessed k hours before the start
ManyRows(n) ==
    LET Key(k) == "K" \o ToString(k)
    IN  [key \in {Key(k) : k \in 1..n} |->
           EarlierRow(PyDict(<< >>), CHOOSE k \in 1..n : Key(k) = key)]

\* the rows of n projects, projects k and k + 1 (k even) last accessed in the
\* same hour, k \div 2 + 1 hours before the start
TiedRows(n) ==
    LET Key(k) == "K" \o ToString(k)
    IN  [key \in {Key(k) : k \in 1..n} |->
           EarlierRow(PyDict(<< >>), (CHOOSE k \in 1..n : Key(k) = key) \div 2 + 1)]

FullDb(excess) ==
    [location_cache |-> ManyRows(CACHE_MAX_PROJECTS + excess),
     forms_cache |-> ManyRows(CACHE_MAX_PROJECTS + excess),
     relationships_cache |-> ManyRows(CACHE_MAX_PROJECTS + excess),
     oversize |-> FALSE, unavailable |-> FALSE]

\* cache files before an eviction pass: empty, with rows about as old as the
\* retention window, with tables at and over their capacity, and over
\* CACHE_SIZE_THRESHOLD
EvictionDbs ==
    {EmptyDb}
      \cup {EarlierDb("P1", RetentionHours + late) :
              late \in (0 - MaxSkew - 1)..(MaxSkew + 1)}
      \cup {FullDb(excess) : excess \in 0..MaxExcess}
      \cup {[EarlierDb("P1", 1) EXCEPT !.oversize = TRUE]}

InitEviction ==
    /\ form_data = PlainForm(PyStr("F1"))
    /\ form_info = NoAnswer
    /\ assets = NotAsked
    /\ current_progress = InitialProgress
    /\ location_cache = EmptyTable
    /\ cache_db \in EvictionDbs
    /\ clock \in {[utc |-> 0, utc_offset |-> hours] : hours \in (0 - MaxSkew)..MaxSkew}
    /\ polled = NotPolled
    /\ lookup = NoLookup
    /\ service = LinkedService
    /\ batch = [t \in {Worker} |-> Request("P1", TRUE)]

\* the paths that run the eviction pass
NextEviction ==
    \/ \E project_id \in {"P1", "b.P1"} : get_form_exporter_progress(project_id)
    \/ \E project_id \in {"P1", "b.P1"} : call_get_all_relationships_for_project(project_id)
    \/ get_form_exporter_data(Worker)
    \/ process_form(Worker)
    \/ complete_batch(Worker)
    \/ Tick

SpecEviction == InitEviction /\ [][NextEviction]_vars

\* C17: whatever the cache holds, the eviction pass leaves at most
\* CACHE_MAX_PROJECTS rows in each table, and no row that was last accessed
\* more than CACHE_CLEANUP_DAYS days ago
C17_EvictionPostcondition ==
    \A evicted \in EvictionPass(Store, clock) :
       \A table \in Tables :
          /\ Cardinality(DOMAIN evicted.db[table]) <= CACHE_MAX_PROJECTS
          /\ \A key \in DOMAIN evicted.db[table] :
                evicted.db[table][key].last_accessed
                  >= CurrentTimestamp(clock) - RetentionHours
-----------------------------------------------------------------------------
(* Two requests for different projects served by two worker threads, and     *)
(* queries of the progress                                                   *)

PolledIds == {"P1", "b.P1", "P2", "b.P2", "P3"}

\* the forms list is fetched or not; the loop over the forms ends or raises
ProgressServices ==
    {AnsweringService(n) : n \in 0..MaxFew}
      \cup {s \in FailingServices :
              /\ s.relationships_ok /\ s.assets_v2_ok /\ s.locations_ok
              /\ Len(AllForms(s.forms_data)) = 1
              /\ \/ ~s.forms_ok /\ s.relationships = << >>
                 \/ s.forms_ok /\ ScanRaises(s.relationships)}

InitProgress ==
    /\ form_data = PlainForm(PyStr("F1"))
    /\ form_info = NoAnswer
    /\ assets = NotAsked
    /\ current_progress = InitialProgress
    /\ location_cache = EmptyTable
    /\ cache_db = EmptyDb
    /\ clock = [utc |-> 0, utc_offset |-> 0]
    /\ polled = NotPolled
    /\ lookup = NoLookup
    /\ service \in ProgressServices
    /\ batch \in {[t \in {Worker, OtherWorker} |->
                     IF t = Worker THEN Request(a, TRUE) ELSE Request("P2", TRUE)] :
                    a \in {"P1", "b.P1"}}

NextProgress ==
    \/ \E t \in {Worker, OtherWorker} :
          \/ get_form_exporter_data(t)
          \/ process_form(t)
          \/ complete_batch(t)
    \/ \E project_id \in PolledIds : get_progress(project_id)
    \/ return_progress

SpecProgress == InitProgress /\ [][NextProgress]_vars

-----------------------------------------------------------------------------
(* Properties of the progress queries, checked under SpecProgress *)

\* the requests for the project that project_id spells
RequestsOf(project_id) ==
    {t \in DOMAIN batch :
       clean_project_id(batch[t].project_id) = clean_project_id(project_id)}

\* no batch of the project is in flight: none was started, or it has ended
NoBatchInFlight(project_id) ==
    \A t \in RequestsOf(project_id) : batch[t].pc \in {"received", "done"}

NeverStarted(project_id) ==
    \A t \in RequestsOf(project_id) : batch[t].pc = "received"

\* this step answers a query
PollAnswered == polled' # polled /\ ~polled'.pending

LastWritten(t) == batch[t].written[Len(batch[t].written)]

\* the two spellings of every project are compared alike with the progress record
SpellingsAgree ==
    \A project_id \in PolledIds :
       ProgressOfProject(current_progress, project_id)
         = ProgressOfProject(current_progress, "b." \o clean_project_id(project_id))

C15_PollSeesOwnBatch ==
    [][PollAnswered
          => \A t \in RequestsOf(polled'.project_id) :
                batch[t].written # << >> => polled'.answer = LastWritten(t)]_vars
-----------------------------------------------------------------------------
(* The capacity step of the eviction pass *)

\* cache.db of an earlier run in which one table is at or over its capacity
OneFull(table, excess) ==
    [EarlierDb("P1", 1) EXCEPT ![table] = TiedRows(CACHE_MAX_PROJECTS + excess)]

InitCapacity ==
    /\ form_data = PlainForm(PyStr("F1"))
    /\ form_info = NoAnswer
    /\ assets = NotAsked
    /\ current_progress = InitialProgress
    /\ location_cache = EmptyTable
    /\ cache_db \in {OneFull(table, excess) : table \in Tables, excess \in 0..MaxExcess}
    /\ clock = [utc |-> 0, utc_offset |-> 0]
    /\ polled = NotPolled
    /\ lookup = NoLookup
    /\ service = LinkedService
    /\ batch = [t \in {Worker} |-> Request("P1", TRUE)]

NextCapacity ==
    \/ \E project_id \in {"P1", "P2"} : get_form_exporter_progress(project_id)
    \/ call_get_all_relationships_for_project("P2")
    \/ Tick

SpecCapacity == InitCapacity /\ [][NextCapacity]_vars

\* C21: of a table that holds more than CACHE_MAX_PROJECTS rows after the
\* deletion by age, the eviction leaves CACHE_MAX_PROJECTS rows, none of them
\* accessed less recently than a deleted one; a table with at most
\* CACHE_MAX_PROJECTS rows is left as the deletion by age left it, whatever
\* the other tables hold
C21_CapacityEviction ==
    LET before == check_cache_size(Store).db
    IN  \A after \in cleanup_old_cache_entries(before, clock) :
           \A table \in Tables :
              LET aged == DeleteOld(before[table], CutoffDate(clock))
                  left == after[table]
              IN  /\ DOMAIN left \subseteq DOMAIN aged
                  /\ \A key \in DOMAIN left : left[key] = aged[key]
                  /\ IF Cardinality(DOMAIN aged) > CACHE_MAX_PROJECTS
                     THEN /\ Cardinality(DOMAIN left) = CACHE_MAX_PROJECTS
                          /\ \A key \in DOMAIN left :
                                \A deleted \in DOMAIN aged \ DOMAIN left :
                                   aged[deleted].last_accessed <= aged[key].last_accessed
                     ELSE left = aged

\* the location table was over its capacity: of its two least recently
\* accessed rows one is gone and the other is kept, and the other tables hold
\* what they held
C21_Witness ==
    /\ lookup.location_cache # NoRead
    /\ "K" \o ToString(CACHE_MAX_PROJECTS + 1) \notin DOMAIN cache_db.location_cache
    /\ "K" \o ToString(CACHE_MAX_PROJECTS) \in DOMAIN cache_db.location_cache
    /\ "K1" \in DOMAIN cache_db.location_cache
    /\ "P1" \in DOMAIN cache_db.forms_cache
    /\ "P1" \in DOMAIN cache_db.relationships_cache
-----------------------------------------------------------------------------
(* The reset of the cache: by the size of the file and by request *)

\* what the stores of the requests have written takes cache.db over
\* CACHE_SIZE_THRESHOLD
CacheFileGrows ==
    /\ ~cache_db.oversize
    /\ \E table \in Tables : cache_db[table] # EmptyTable
    /\ cache_db' = [cache_db EXCEPT !.oversize = TRUE]
    /\ UNCHANGED <<form_data, form_info, service, assets, current_progress,
                   location_cache, clock, batch, polled, lookup>>

\* clear_cache_endpoint: POST /api/cache/clear; 401 without a session
clear_cache_endpoint(authenticated) ==
    /\ IF authenticated
       THEN /\ cache_db' = clear_cache_file.db
            /\ location_cache' = clear_cache_file.memory
       ELSE UNCHANGED <<cache_db, location_cache>>
    /\ lookup' = NoLookup
    /\ UNCHANGED <<form_data, form_info, service, assets, current_progress, clock,
                   batch, polled>>

InitReset ==
    /\ form_data = PlainForm(PyStr("F1"))
    /\ form_info = NoAnswer
    /\ assets = NotAsked
    /\ current_progress = InitialProgress
    /\ location_cache = EmptyTable
    /\ cache_db \in {[EarlierDb("P1", 1) EXCEPT !.oversize = oversize] :
                       oversize \in BOOLEAN}
    /\ clock = [utc |-> 0, utc_offset |-> 0]
    /\ polled = NotPolled
    /\ lookup = NoLookup
    /\ service = LinkedService
    /\ batch \in {[t \in {Worker} |-> Request(project_id, TRUE)] :
                    project_id \in {"P1", "P2"}}

NextReset ==
    \/ \E project_id \in {"P1", "P2"} : get_form_exporter_progress(project_id)
    \/ \E project_id \in {"P1", "P2"} : call_get_all_relationships_for_project(project_id)
    \/ get_form_exporter_data(Worker)
    \/ process_form(Worker)
    \/ complete_batch(Worker)
    \/ \E authenticated \in BOOLEAN : clear_cache_endpoint(authenticated)
    \/ CacheFileGrows

SpecReset == InitReset /\ [][NextReset]_vars

-----------------------------------------------------------------------------
(* Fetches that fail: what reaches the tables *)

\* the project of LinkedService with each of its three requests answering or
\* failing
FetchServices ==
    { [LinkedService EXCEPT !.forms_ok = forms_ok, !.locations_ok = locations_ok,
                            !.relationships_ok = search_ok] :
        forms_ok \in BOOLEAN, locations_ok \in BOOLEAN, search_ok \in BOOLEAN }

\* the service starts or stops answering a request
ServiceChanges ==
    /\ service' \in FetchServices \ {service}
    /\ UNCHANGED <<form_data, form_info, assets, current_progress, location_cache,
                   cache_db, clock, batch, polled, lookup>>

InitFetch ==
    /\ form_data = PlainForm(PyStr("F1"))
    /\ form_info = NoAnswer
    /\ assets = NotAsked
    /\ current_progress = InitialProgress
    /\ location_cache = EmptyTable
    /\ cache_db = EmptyDb
    /\ clock = [utc |-> 0, utc_offset |-> 0]
    /\ polled = NotPolled
    /\ lookup = NoLookup
    /\ service \in FetchServices
    /\ batch = [t \in {Worker} |-> Request("P1", TRUE)]

NextFetch ==
    \/ get_form_exporter_progress("P1")
    \/ call_get_all_relationships_for_project("P1")
    \/ \E project_id \in {"P1", "P2"} : receive_request(Worker, project_id)
    \/ get_form_exporter_data(Worker)
    \/ process_form(Worker)
    \/ complete_batch(Worker)
    \/ ServiceChanges

SpecFetch == InitFetch /\ [][NextFetch]_vars

\* the request behind a table has answered
Fetched(table, svc) ==
    IF table = "forms_cache" THEN svc.forms_ok
    ELSE IF table = "location_cache" THEN svc.locations_ok
    ELSE svc.relationships_ok

\* C23: a row enters a table only in a step whose fetch for that table
\* succeeded
C23_EntryOnlyAfterSuccessfulFetch ==
    [][\A table \in Tables :
          \A key \in DOMAIN cache_db'[table] \ DOMAIN cache_db[table] :
             Fetched(table, service)]_vars
-----------------------------------------------------------------------------
(* The content search when the asset list did not answer at first *)

\* names that the text of the content forms holds
AssetWords == << "Pump", "P-1", "Leak", "Valve", "Leaking", "A1" >>

\* the k-th asset of a project whose assets are named after such words
WordAsset(k) ==
    [id |-> PyStr("W" \o ToString(k)),
     attributes |-> [name |-> IF k <= Len(AssetWords) THEN PyStr(AssetWords[k])
                              ELSE PyStr("Tank"),
                     description |-> Missing, locationId |-> Missing]]

\* the asset list fails or answers, at the first request and at the second
FallbackServices ==
    { [QuietService EXCEPT !.assets_ok = ok[1], !.assets_retry_ok = ok[2],
                           !.available_assets = [k \in 1..n |-> WordAsset(k)]] :
        ok \in BOOLEAN \X BOOLEAN, n \in 0..MaxAssets }

InitFallback ==
    /\ form_data \in ContentForms
    /\ service \in FallbackServices
    /\ form_info = NoAnswer
    /\ assets = NotAsked
    /\ NoExport

NextFallback == get_form_asset_relationships

SpecFallback == InitFallback /\ [][NextFallback]_vars

\* C24: the list that the content strategies return has at most
\* MostRelevant entries and no two of them have the same id
C24_FallbackAtMostFiveDistinct ==
    (/\ assets.by = "get_form_asset_relationships"
     /\ ~service.assets_ok \/ get_form_references(service, form_data) = << >>)
    => /\ Len(assets.list) <= MostRelevant
       /\ \A i, j \in 1..Len(assets.list) :
             assets.list[i].id = assets.list[j].id => i = j
-----------------------------------------------------------------------------
(* Bracketed tokens in the text of a form *)

\* the ids of the tokens name[id] of a text, from left to right: each '['
\* that a non-empty text without ']' and a ']' follow, after the end of the
\* token before it
RECURSIVE TokenIds(_)
TokenIds(value) ==
    IF BracketStarts(value) = {} THEN {}
    ELSE LET i == Least(BracketStarts(value))
             j == Least({k \in Positions(value, "]") : k > i})
         IN  {BracketGroup(value)} \cup TokenIds(SubSeq(value, j + 1, Len(value)))

\* the text fields of the form, in its containers of fields
TextItems(form) ==
    {form.customValues[k] : k \in 1..Len(form.customValues)}
    \cup {form.pdfValues[k] : k \in 1..Len(form.pdfValues)}

\* C25: every token name[id] of every text value of the form has an
\* embedded_reference entry with that id whose reason or description
\* names the field
C25_EveryTokenIsAReference ==
    \A item \in TextItems(form_data) :
       Truthy(Get(item, "textVal")) =>
          \A id \in TokenIds(item.textVal.s) :
             \E k \in 1..Len(check_form_for_embedded_relationships(form_data)) :
                LET entry == check_form_for_embedded_relationships(form_data)[k]
                IN  /\ entry.type = "embedded_reference"
                    /\ entry.id = PyStr(id)
                    /\ \/ Contains(entry.match_reason,
                                   Format(GetOr(item, "itemLabel", PyStr(""))))
                       \/ Contains(entry.description.s,
                                   Format(GetOr(item, "itemLabel", PyStr(""))))
-----------------------------------------------------------------------------
(* A cache file that cannot be used *)

\* cache.db with a row for key in every table whose payload cannot be parsed
UnreadableDb(key) ==
    LET row == [data |-> UnreadableText, created_at |-> 0 - 1, last_accessed |-> 0 - 1]
    IN  [EmptyDb EXCEPT !.location_cache = Put(EmptyTable, key, row),
                        !.forms_cache = Put(EmptyTable, key, row),
                        !.relationships_cache = Put(EmptyTable, key, row)]

\* the statements on cache.db start to raise: the file is replaced, damaged
\* or locked
StoreFails ==
    /\ ~cache_db.unavailable
    /\ cache_db' = [cache_db EXCEPT !.unavailable = TRUE]
    /\ UNCHANGED <<form_data, form_info, service, assets, current_progress,
                   location_cache, clock, batch, polled, lookup>>

\* the lock on cache.db is released
StoreRecovers ==
    /\ cache_db.unavailable
    /\ cache_db' = [cache_db EXCEPT !.unavailable = FALSE]
    /\ UNCHANGED <<form_data, form_info, service, assets, current_progress,
                   location_cache, clock, batch, polled, lookup>>

InitBroken ==
    /\ form_data = PlainForm(PyStr("F1"))
    /\ form_info = NoAnswer
    /\ assets = NotAsked
    /\ current_progress = InitialProgress
    /\ location_cache = EmptyTable
    /\ cache_db \in {[EmptyDb EXCEPT !.unavailable = TRUE],
                     [EarlierDb("P1", 1) EXCEPT !.unavailable = TRUE],
                     UnreadableDb("P1")}
    /\ clock = [utc |-> 0, utc_offset |-> 0]
    /\ polled = NotPolled
    /\ lookup = NoLookup
    /\ service \in FetchServices
    /\ batch = [t \in {Worker} |-> Request("P1", TRUE)]

NextBroken ==
    \/ get_form_exporter_progress("P1")
    \/ call_get_all_relationships_for_project("P1")
    \/ \E project_id \in {"P1", "P2"} : receive_request(Worker, project_id)
    \/ get_form_exporter_data(Worker)
    \/ process_form(Worker)
    \/ complete_batch(Worker)
    \/ StoreFails
    \/ StoreRecovers

SpecBroken == InitBroken /\ [][NextBroken]_vars

\* the store of a program whose cache.db is new
EmptyCache == [db |-> EmptyDb, memory |-> location_cache]

\* what a read of table for project_id answers on a store
ValueRead(table, store, project_id) ==
    IF table = "forms_cache"
    THEN ReadForms(store, clock, service, clean_project_id(project_id)).value
    ELSE IF table = "location_cache"
    THEN ReadLocations(store, clock, service, clean_project_id(project_id)).value
    ELSE ReadRelationships(store, clock, service, project_id).value

\* C26: a read on a file whose statements raise, or of a row whose payload
\* cannot be parsed, answers what it answers on a new cache.db; a step on a
\* file whose statements raise leaves the file as it is; and the batch fails
\* on such a file only when the forms of the project cannot be fetched
C26_BrokenStoreIsBypassed ==
    [][/\ \A table \in Tables :
             LET read == lookup'[table]
             IN  (/\ Reads(table)
                  /\ \/ cache_db.unavailable
                     \/ /\ read.key \in DOMAIN cache_db[table]
                        /\ ~Readable(cache_db[table][read.key].data))
                 => /\ read.value = ValueRead(table, EmptyCache, read.project_id)
                    /\ read.source # "table"
       /\ (cache_db.unavailable /\ cache_db'.unavailable) => cache_db' = cache_db
       /\ \A t \in DOMAIN batch :
             (/\ cache_db.unavailable
              /\ batch[t].pc = "received"
              /\ batch[t].authenticated
              /\ batch'[t].pc = "done")
             => ~service.forms_ok /\ batch'[t].response = Failure(500)]_vars

\* a batch has answered every form of the project while no statement on
\* cache.db could be run
C26_Witness ==
    /\ cache_db.unavailable
    /\ "P1" \in DOMAIN cache_db.forms_cache
    /\ cache_db.forms_cache["P1"].last_accessed = 0 - 1
    /\ batch[Worker].pc = "done"
    /\ batch[Worker].response.status = 200
    /\ "P1" \in DOMAIN location_cache
-----------------------------------------------------------------------------
(* The bulk exports /export_forms and /api/forms/export-zip: one file for    *)
(* every form that was asked for. The renderer (wkhtmltopdf) fails on the    *)
(* forms of the set failing.                                                 *)

MaxAsked == 3

\* text.replace(old, new) for a one-character old
RECURSIVE Replace(_, _, _)
Replace(text, old, new) ==
    IF text = "" THEN ""
    ELSE (IF SubSeq(text, 1, 1) = old THEN new ELSE SubSeq(text, 1, 1))
         \o Replace(SubSeq(text, 2, Len(text)), old, new)

\* the form of the list with this id: "if form['id'] == form_id: break"
FormsWithId(forms_data, form_id) ==
    {k \in 1..Len(AllForms(forms_data)) : AllForms(forms_data)[k].id = PyStr(form_id)}
FoundForm(forms_data, form_id) ==
    AllForms(forms_data)[Least(FormsWithId(forms_data, form_id))]

FormName(form) == GetOr(form, "name", PyStr("Unnamed Form")).s

\* form_id[:8]
FirstEight(form_id) == SubSeq(form_id, 1, IF Len(form_id) < 8 THEN Len(form_id) ELSE 8)

\* the entry of the archive that export_forms_zip writes for a form: the
\* PDF, or an error file in its place when the renderer raises
ZipEntry(form, form_id, failing) ==
    LET filename == Replace(Replace(Replace(FormName(form), "/", "_"), "\\", "_"),
                            ":", "_")
                    \o "_" \o FirstEight(form_id) \o ".pdf"
    IN  IF form_id \in failing
        THEN [form_id |-> form_id, name |-> "ERROR_" \o filename, kind |-> "error"]
        ELSE [form_id |-> form_id, name |-> filename, kind |-> "pdf"]

\* the loop of export_forms_zip over the ids: an id that is not in the list
\* is passed over
RECURSIVE ZipEntries(_, _, _)
ZipEntries(forms_data, form_ids, failing) ==
    IF form_ids = << >> THEN << >>
    ELSE (IF FormsWithId(forms_data, Head(form_ids)) = {} THEN << >>
          ELSE << ZipEntry(FoundForm(forms_data, Head(form_ids)), Head(form_ids),
                           failing) >>)
         \o ZipEntries(forms_data, Tail(form_ids), failing)

\* the file that export_forms appends for a form
PdfFile(form, form_id) ==
    [form_id |-> form_id,
     name |-> Replace(Replace(FormName(form), " ", "_"), "/", "_") \o ".pdf",
     kind |-> "pdf"]

\* the loop of export_forms over the ids; pdfkit.from_string is called
\* outside any try
RECURSIVE PdfFiles(_, _)
PdfFiles(forms_data, form_ids) ==
    IF form_ids = << >> THEN << >>
    ELSE (IF FormsWithId(forms_data, Head(form_ids)) = {} THEN << >>
          ELSE << PdfFile(FoundForm(forms_data, Head(form_ids)), Head(form_ids)) >>)
         \o PdfFiles(forms_data, Tail(form_ids))

RendererRaises(forms_data, form_ids, failing) ==
    \E k \in 1..Len(form_ids) :
       form_ids[k] \in failing /\ FormsWithId(forms_data, form_ids[k]) # {}

\* the answer of a bulk export, with the request that it answers
BulkAnswer(by, form_ids, failing, status, files) ==
    [status |-> status, sections |-> << >>, by |-> by, form_ids |-> form_ids,
     failing |-> failing, files |-> files]

\* GET /api/forms/export-zip?form_ids=..: the archive of the forms
export_forms_zip_files(form_ids, failing) ==
    /\ form_info' =
         IF ~service.forms_ok
         THEN BulkAnswer("export_forms_zip", form_ids, failing, 500, << >>)
         ELSE BulkAnswer("export_forms_zip", form_ids, failing, 200,
                         ZipEntries(service.forms_data, form_ids, failing))
    /\ UNCHANGED <<form_data, service, assets>>
    /\ UNCHANGED export_vars

\* GET /export_forms?form_ids=..: the archive or the merged file of the forms
export_forms_files(form_ids, failing) ==
    /\ form_info' =
         IF ~service.forms_ok
         THEN BulkAnswer("export_forms", form_ids, failing, 500, << >>)
         ELSE IF RendererRaises(service.forms_data, form_ids, failing)
         THEN BulkAnswer("export_forms", form_ids, failing, 500, << >>)
         ELSE BulkAnswer("export_forms", form_ids, failing, 200,
                         PdfFiles(service.forms_data, form_ids))
    /\ UNCHANGED <<form_data, service, assets>>
    /\ UNCHANGED export_vars

\* the ids of a request: forms of the project and an id that it has not
AskedIds == SeqsUpTo({"F1", "F2", "F404"}, MaxAsked)

InitBulk ==
    /\ form_data = PlainForm(PyStr("F1"))
    /\ form_info = NoAnswer
    /\ assets = NotAsked
    /\ NoExport
    /\ service \in {AnsweringService(MaxFew),
                    [AnsweringService(MaxFew) EXCEPT !.forms_ok = FALSE]}

NextBulk ==
    \/ \E form_ids \in AskedIds, failing \in SUBSET {"F1", "F2"} :
          export_forms_zip_files(form_ids, failing)
    \/ \E form_ids \in AskedIds, failing \in SUBSET {"F1", "F2"} :
          export_forms_files(form_ids, failing)

SpecBulk == InitBulk /\ [][NextBulk]_vars

\* the ids of the request that are forms of the project, in the order asked
RECURSIVE Exported(_, _)
Exported(forms_data, form_ids) ==
    IF form_ids = << >> THEN << >>
    ELSE (IF FormsWithId(forms_data, Head(form_ids)) = {} THEN << >>
          ELSE << Head(form_ids) >>)
         \o Exported(forms_data, Tail(form_ids))

\* C27: a bulk export that obtained the forms list answers with success and
\* with one file for every form asked for, in order: an error file for a form
\* on which the renderer failed, the PDF for every other form
C27_RendererFailureIsPerForm ==
    ("by" \in DOMAIN form_info /\ service.forms_ok)
    => LET asked == Exported(service.forms_data, form_info.form_ids)
       IN  /\ form_info.status = 200
           /\ Len(form_info.files) = Len(asked)
           /\ \A k \in 1..Len(asked) :
                 /\ form_info.files[k].form_id = asked[k]
                 /\ form_info.files[k].kind =
                      IF asked[k] \in form_info.failing THEN "error" ELSE "pdf"
-----------------------------------------------------------------------------
(* The statements of the batch on cache.db, one at a time. Here a table is   *)
(* the set of its rows [project_id, data, created_at, last_accessed] and a   *)
(* thread may run between any two statements of another thread. The rows are *)
(* recent and few: the eviction pass at the start of a request deletes none. *)

EmptyRows ==
    [location_cache |-> {}, forms_cache |-> {}, relationships_cache |-> {},
     oversize |-> FALSE, unavailable |-> FALSE]

\* a variant of the write that adds the row and leaves the others
InsertOnly(rows, row) == rows \cup {row}

\* INSERT OR REPLACE INTO table (project_id, ..) on a table whose PRIMARY KEY
\* is project_id: the row takes the place of the row with its key
InsertOrReplace(rows, row) ==
    {r \in rows : r.project_id # row.project_id} \cup {row}

\* UPDATE table SET last_accessed = CURRENT_TIMESTAMP WHERE project_id = key
UpdateLastAccessed(rows, key, clk) ==
    {IF r.project_id = key THEN [r EXCEPT !.last_accessed = CurrentTimestamp(clk)] ELSE r :
       r \in rows}

\* SELECT .. WHERE project_id = key
Selected(rows, key) == {r \in rows : r.project_id = key}

RowOf(key, data, clk) == [project_id |-> key] @@ Row(data, clk)

\* a request for the batch export that a worker thread has received
StatementRequest(project_id) ==
    [pc |-> "received", project_id |-> project_id, payload |-> None]

WriterThreads == {Worker, OtherWorker}

\* step 1: the SELECT on forms_cache and, for a row, the UPDATE
select_forms(t) ==
    /\ batch[t].pc = "received"
    /\ LET key == clean_project_id(batch[t].project_id)
           found == Selected(cache_db.forms_cache, key)
       IN  IF \E r \in found : TruthyObject(json_loads(r.data))
           THEN /\ cache_db' = [cache_db EXCEPT !.forms_cache =
                                  UpdateLastAccessed(@, key, clock)]
                /\ batch' = [batch EXCEPT ![t].pc = "select_locations"]
           ELSE /\ cache_db' = [cache_db EXCEPT !.forms_cache =
                                  UpdateLastAccessed(@, key, clock)]
                /\ batch' = [batch EXCEPT ![t].pc = "fetch_forms"]
    /\ UNCHANGED <<form_data, form_info, service, assets, current_progress,
                   location_cache, clock, polled, lookup>>

\* step 2: the forms of the project are fetched
fetch_forms(t) ==
    /\ batch[t].pc = "fetch_forms"
    /\ batch' = IF service.forms_ok
                THEN [batch EXCEPT ![t].pc = "insert_forms",
                                   ![t].payload = service.forms_data]
                ELSE [batch EXCEPT ![t].pc = "done"]
    /\ UNCHANGED <<form_data, form_info, service, assets, current_progress,
                   location_cache, cache_db, clock, polled, lookup>>

\* step 2: the INSERT OR REPLACE on forms_cache
insert_forms(t) ==
    /\ batch[t].pc = "insert_forms"
    /\ cache_db' = [cache_db EXCEPT !.forms_cache =
                      InsertOrReplace(@, RowOf(clean_project_id(batch[t].project_id),
                                               json_dumps(batch[t].payload), clock))]
    /\ batch' = [batch EXCEPT ![t].pc = "select_locations", ![t].payload = None]
    /\ UNCHANGED <<form_data, form_info, service, assets, current_progress,
                   location_cache, clock, polled, lookup>>

\* step 3: the in-process map, then the SELECT on location_cache and, for a
\* row, the UPDATE
select_locations(t) ==
    /\ batch[t].pc = "select_locations"
    /\ LET key == CacheKey(clean_project_id(batch[t].project_id))
           found == Selected(cache_db.location_cache, key)
       IN  IF key \in DOMAIN location_cache
           THEN /\ batch' = [batch EXCEPT ![t].pc = "done"]
                /\ UNCHANGED <<cache_db, location_cache>>
           ELSE IF found # {}
           THEN /\ cache_db' = [cache_db EXCEPT !.location_cache =
                                  UpdateLastAccessed(@, key, clock)]
                /\ location_cache' =
                     Put(location_cache, key, json_loads((CHOOSE r \in found : TRUE).data))
                /\ batch' = [batch EXCEPT ![t].pc = "done"]
           ELSE /\ batch' = [batch EXCEPT ![t].pc = "fetch_locations"]
                /\ UNCHANGED <<cache_db, location_cache>>
    /\ UNCHANGED <<form_data, form_info, service, assets, current_progress, clock,
                   polled, lookup>>

\* step 3: the location tree is fetched and kept in the in-process map
fetch_locations(t) ==
    /\ batch[t].pc = "fetch_locations"
    /\ LET key == CacheKey(clean_project_id(batch[t].project_id))
           fetched == PyDict(LocationLookup(service.locations, << >>))
       IN  IF service.locations_ok
           THEN /\ location_cache' = Put(location_cache, key, fetched)
                /\ batch' = [batch EXCEPT ![t].pc = "insert_locations",
                                          ![t].payload = fetched]
           ELSE /\ batch' = [batch EXCEPT ![t].pc = "done"]
                /\ UNCHANGED location_cache
    /\ UNCHANGED <<form_data, form_info, service, assets, current_progress, cache_db,
                   clock, polled, lookup>>

\* step 3: the INSERT OR REPLACE on location_cache
insert_locations(t) ==
    /\ batch[t].pc = "insert_locations"
    /\ cache_db' = [cache_db EXCEPT !.location_cache =
                      InsertOrReplace(@, RowOf(CacheKey(clean_project_id(batch[t].project_id)),
                                               json_dumps(batch[t].payload), clock))]
    /\ batch' = [batch EXCEPT ![t].pc = "done", ![t].payload = None]
    /\ UNCHANGED <<form_data, form_info, service, assets, current_progress,
                   location_cache, clock, polled, lookup>>

\* the request is abandoned: the client has gone, the thread is stopped
abandon(t) ==
    /\ batch[t].pc \notin {"received", "done"}
    /\ batch' = [batch EXCEPT ![t].pc = "done", ![t].payload = None]
    /\ UNCHANGED <<form_data, form_info, service, assets, current_progress,
                   location_cache, cache_db, clock, polled, lookup>>

\* the thread receives its next request
next_request(t, project_id) ==
    /\ batch[t].pc = "done"
    /\ batch' = [batch EXCEPT ![t] = StatementRequest(project_id)]
    /\ UNCHANGED <<form_data, form_info, service, assets, current_progress,
                   location_cache, cache_db, clock, polled, lookup>>

WriterProjects == {"P1", "b.P1", "P2"}

InitStatements ==
    /\ form_data = PlainForm(PyStr("F1"))
    /\ form_info = NoAnswer
    /\ assets = NotAsked
    /\ current_progress = InitialProgress
    /\ location_cache = EmptyTable
    /\ cache_db = EmptyRows
    /\ clock = [utc |-> 0, utc_offset |-> 0]
    /\ polled = NotPolled
    /\ lookup = NoLookup
    /\ service = LinkedService
    /\ batch \in [WriterThreads -> {StatementRequest(project_id) :
                                      project_id \in WriterProjects}]

NextStatements ==
    \/ \E t \in WriterThreads :
          \/ select_forms(t)
          \/ fetch_forms(t)
          \/ insert_forms(t)
          \/ select_locations(t)
          \/ fetch_locations(t)
          \/ insert_locations(t)
          \/ abandon(t)
          \/ \E project_id \in WriterProjects : next_request(t, project_id)
    \/ DataChanges

SpecStatements == InitStatements /\ [][NextStatements]_vars

\* the payloads that a request can have fetched whole
WholePayloads(table) ==
    IF table = "forms_cache" THEN {json_dumps(svc.forms_data) : svc \in CacheServices}
    ELSE IF table = "location_cache"
    THEN {json_dumps(PyDict(LocationLookup(svc.locations, << >>))) : svc \in CacheServices}
    ELSE {json_dumps(SearchedRelationships(svc)) : svc \in CacheServices}

\* C28: whatever the order of the statements of the threads and wherever a
\* request is abandoned, no table holds two rows with the same key and the
\* payload of every row is one that a request fetched whole
C28_OneWholeRowPerKey ==
    \A table \in Tables :
       /\ \A r1, r2 \in cache_db[table] : r1.project_id = r2.project_id => r1 = r2
       /\ \A r \in cache_db[table] : r.data \in WholePayloads(table)

\* two threads have written the forms of the same project, the second after
\* the project had changed, and a request was abandoned before its write
C28_Witness ==
    /\ \E r \in cache_db.forms_cache :
          r.project_id = "P1" /\ r.data = json_dumps(ChangedService.forms_data)
    /\ \E r \in cache_db.location_cache : r.project_id = "P1"
    /\ \A t \in WriterThreads : batch[t].pc = "done"
    /\ service = LinkedService
-----------------------------------------------------------------------------
(* The in-process map of locations next to the location table *)

LinkedLocations == PyDict(LocationLookup(LinkedService.locations, << >>))

LastKey == "K" \o ToString(CACHE_MAX_PROJECTS)

\* the program has run for a month: the locations of P1 are in the map since
\* its row was last accessed, one hour short of CACHE_CLEANUP_DAYS ago
AgedStore ==
    [db |-> EarlierDb("P1", RetentionHours - 1),
     memory |-> Put(EmptyTable, "P1", LinkedLocations)]

\* the location table is at its capacity and the project in the map is the
\* one whose row was accessed least recently
CrowdedStore ==
    [db |-> [EmptyDb EXCEPT !.location_cache =
               [TiedRows(CACHE_MAX_PROJECTS) EXCEPT
                  ![LastKey].data = json_dumps(LinkedLocations)]],
     memory |-> Put(EmptyTable, LastKey, LinkedLocations)]

InitMap ==
    /\ form_data = PlainForm(PyStr("F1"))
    /\ form_info = NoAnswer
    /\ assets = NotAsked
    /\ current_progress = InitialProgress
    /\ \E store \in {AgedStore, CrowdedStore} :
          cache_db = store.db /\ location_cache = store.memory
    /\ clock = [utc |-> 0, utc_offset |-> 0]
    /\ polled = NotPolled
    /\ lookup = NoLookup
    /\ service = LinkedService
    /\ batch = [t \in {Worker} |-> Request("P1", TRUE)]

NextMap ==
    \/ \E project_id \in {"P1", "P2", LastKey} : get_form_exporter_progress(project_id)
    \/ \E authenticated \in BOOLEAN : clear_cache_endpoint(authenticated)
    \/ CacheFileGrows
    \/ Tick

SpecMap == InitMap /\ [][NextMap]_vars

\* the step resets the cache: the size check on a file over the threshold, or
\* the manual clear
FullReset ==
    \/ cache_db.oversize /\ ~cache_db'.oversize
    \/ /\ location_cache' = EmptyTable
       /\ \A table \in Tables : cache_db'[table] = EmptyTable

\* C29: an entry leaves the in-process map only in a full reset; an entry
\* enters it only for the project whose locations the step has read from the
\* table or fetched; and a read for a project that is in the map, without a
\* reset, answers the entry of the map and creates no row, also when the row
\* of the project has been evicted
C29_MapOutlivesEviction ==
    [][/\ \A key \in DOMAIN location_cache :
             (key \notin DOMAIN location_cache' \/ location_cache'[key] # location_cache[key])
                => FullReset
       /\ \A key \in DOMAIN location_cache' \ DOMAIN location_cache :
             /\ lookup'.location_cache.key = key
             /\ lookup'.location_cache.source \in {"table", "fetch"}
             /\ location_cache'[key] = lookup'.location_cache.value
       /\ (/\ Reads("location_cache")
           /\ lookup'.location_cache.key \in DOMAIN location_cache
           /\ ~cache_db.oversize)
             => /\ lookup'.location_cache.source = "memory"
                /\ lookup'.location_cache.value =
                     location_cache[lookup'.location_cache.key]
                /\ lookup'.location_cache.key \in DOMAIN cache_db'.location_cache
                     => /\ lookup'.location_cache.key \in DOMAIN cache_db.location_cache
                        /\ cache_db'.location_cache[lookup'.location_cache.key]
                             = cache_db.location_cache[lookup'.location_cache.key]]_vars

\* the locations of a project were answered from the map after the eviction
\* had deleted its row, and the row is still absent
C29_Witness ==
    /\ lookup.location_cache.source = "memory"
    /\ lookup.location_cache.value = LinkedLocations
    /\ lookup.location_cache.key \notin DOMAIN cache_db.location_cache
    /\ cache_db.location_cache # EmptyTable
    /\ lookup.location_cache.key \in DOMAIN location_cache
-----------------------------------------------------------------------------
(* Requests that end in failure: one worker thread serves one request after  *)
(* the other                                                                 *)

ManyForms == 402

\* forms lists with an entry that is null, after the seventh form and after
\* all others, and a list without one
LongLists ==
    { [FormsList(MaxForms) EXCEPT ![7] = None],
      Append(FormsList(ManyForms - 1), None),
      FormsList(ManyForms \div 2) }

FailureServices ==
    ProgressServices
      \cup {ExportService([QuietService EXCEPT !.relationships_ok = TRUE,
                                               !.assets_v2_ok = TRUE,
                                               !.assets_v2 = <<AssetA9, AssetA7>>],
                          TRUE, forms, TRUE, <<LocationL1>>) : forms \in LongLists}

InitFailure ==
    /\ form_data = PlainForm(PyStr("F1"))
    /\ form_info = NoAnswer
    /\ assets = NotAsked
    /\ current_progress = InitialProgress
    /\ location_cache = EmptyTable
    /\ cache_db = EmptyDb
    /\ clock = [utc |-> 0, utc_offset |-> 0]
    /\ polled = NotPolled
    /\ lookup = NoLookup
    /\ service \in FailureServices
    /\ batch = [t \in {Worker} |-> Request("P1", TRUE)]

NextFailure ==
    \/ \E project_id \in {"P1", "P2"} : receive_request(Worker, project_id)
    \/ get_form_exporter_data(Worker)
    \/ process_form(Worker)
    \/ complete_batch(Worker)

SpecFailure == InitFailure /\ [][NextFailure]_vars

\* the request ended with the answer of a failure after it was accepted
Failed(t) == Done(t) /\ batch[t].response.status = 500

WroteHundred(t) ==
    \E k \in 1..Len(batch[t].written) : batch[t].written[k].percentage = 100

\* C30: while no other request has been accepted, the progress record of a
\* request that has ended is the last record the request wrote, with the id
\* of its project, and the request wrote a record of 100 percent if and only
\* if it ended with success: a request that failed, by the forms list or by
\* an exception in the loop, never wrote 100
C30_HundredOnlyOnSuccess ==
    \A t \in DOMAIN batch :
       (Done(t) /\ batch[t].written # << >>)
          => /\ current_progress = LastWritten(t)
             /\ current_progress.project_id = PyStr(batch[t].clean_project_id)
             /\ Failed(t) \/ Completed(t)
             /\ WroteHundred(t) <=> Completed(t)

\* what holds whatever the percentage written in the loop: the record kept is
\* the last one written, and the record of completion is written by success only
FailureKeepsLastRecord ==
    \A t \in DOMAIN batch :
       (Done(t) /\ batch[t].written # << >>)
          => /\ current_progress = LastWritten(t)
             /\ current_progress.project_id = PyStr(batch[t].clean_project_id)
             /\ Completed(t) => WroteHundred(t)
             /\ Failed(t) => \A k \in 1..Len(batch[t].written) :
                                batch[t].written[k].message # CompleteProgress(
                                    batch[t].all_forms, batch[t].forms_with_relationships,
                                    batch[t].clean_project_id).message
====
